---- MODULE Spec2Model ----
(***************************************************************************)
(* A model of the ZEE voice assistant's conversational session engine:     *)
(* the wake-word loop and rule-table dispatch of ZEEService                *)
(* (src/zee_service.py) and the conversation store, sentiment classifier   *)
(* and emotional state of AdvancedAI (src/advanced_ai.py).                 *)
(*                                                                         *)
(* Text is modelled by TLA+ strings, on which TLC evaluates Len, SubSeq    *)
(* and \o, so that Python's substring test, lower(), strip() and replace() *)
(* are computed character by character as the interpreter does.            *)
(***************************************************************************)
EXTENDS Integers, Sequences, FiniteSets, TLC

VARIABLES
    wstate,             \* position of listen_for_wake_word: IDLE, AWAITING_COMMAND, COMMAND_EXTRACTED
    heard,              \* the text the last IDLE listen returned (NoText: None)
    command,            \* the command text handed to process_command
    category,           \* the rule-table branch the last process_command took
    spoken,             \* texts given to voice.speak since the last IDLE listen
    calls,              \* collaborator calls made since the last IDLE listen
    smart_calls,        \* number of generate_smart_response calls so far
    handled,            \* number of IDLE listens so far
    history,            \* conversation.conversation_history (a deque, maxlen = max_history)
    appended,           \* every turn ever given to add_message, in order
    current_topic,      \* conversation.current_topic
    interaction_count,  \* conversation.interaction_count
    successful_helps,   \* conversation.successful_helps
    mood,               \* emotional_state["current_mood"]
    energy,             \* emotional_state["energy_level"], in units of 1/EnergyOne
    satisfaction,       \* emotional_state["satisfaction"], a binary64 value (see FloatOne)
    rapport,            \* emotional_state["rapport"], a binary64 value
    age,                \* seconds elapsed since conversation.session_start
    text,               \* the argument of the last analyze_sentiment or detect_topic call
    sentiment,          \* the result of the last analyze_sentiment call
    tasks,              \* TaskManager: tasks["tasks"]
    notes,              \* TaskManager: tasks["notes"]
    errors,             \* exceptions caught by listen_for_wake_word's except clause
    updated,            \* the arguments of the last _update_emotional_state call
    improved,           \* the result of the last improve_query_understanding call
    rewritten,          \* the result of improve_query_understanding on that result
    learning_data,      \* AdvancedAI.learning_data
    storage,            \* the file ai_learning.json
    loaded,             \* _load_learning_data has run
    learned,            \* number of _learn_from_query calls so far
    writes,             \* number of _save_learning_data calls so far
    log,                \* what the learning store has printed
    stop_speaking,      \* VoiceHandler.stop_speaking
    use_gtts,           \* VoiceHandler.use_gtts
    speeches,           \* the _speak_sync calls made so far and where each one is
    cause,              \* why the last voice.listen returned what it returned
    detected_topic,     \* the result of the last detect_topic call
    running,            \* ZEEService.running
    listening,          \* VoiceHandler.listening
    returned            \* what the last AIAssistant.process_command call returned

vars == <<wstate, heard, command, category, spoken, calls, smart_calls, handled,
          history, appended, current_topic, interaction_count, successful_helps,
          mood, energy, satisfaction, rapport, age, text, sentiment,
          tasks, notes, errors, updated, improved, rewritten, learning_data,
          storage, loaded, learned, writes, log, stop_speaking, use_gtts,
          speeches, cause, detected_topic, running, listening, returned>>

-----------------------------------------------------------------------------
(* Python str operations *)

\* None, as returned by voice.listen and held by current_topic: a value that
\* no text equals
NoText == "<None>"

\* the truth value Python gives an Optional[str]
Truthy(s) == s # NoText /\ s # ""

\* str.lower() on one character (the letters of the modelled inputs)
LowerChar(c) ==
    CASE c = "A" -> "a" [] c = "B" -> "b" [] c = "C" -> "c" [] c = "D" -> "d"
      [] c = "E" -> "e" [] c = "F" -> "f" [] c = "G" -> "g" [] c = "H" -> "h"
      [] c = "I" -> "i" [] c = "J" -> "j" [] c = "K" -> "k" [] c = "L" -> "l"
      [] c = "M" -> "m" [] c = "N" -> "n" [] c = "O" -> "o" [] c = "P" -> "p"
      [] c = "Q" -> "q" [] c = "R" -> "r" [] c = "S" -> "s" [] c = "T" -> "t"
      [] c = "U" -> "u" [] c = "V" -> "v" [] c = "W" -> "w" [] c = "X" -> "x"
      [] c = "Y" -> "y" [] c = "Z" -> "z" [] OTHER -> c

RECURSIVE Lower(_)
\* str.lower(): every character lowered, the text taken by halves
Lower(s) ==
    IF Len(s) <= 1 THEN LowerChar(s)
    ELSE Lower(SubSeq(s, 1, Len(s) \div 2))
             \o Lower(SubSeq(s, Len(s) \div 2 + 1, Len(s)))

\* sub in s
Contains(s, sub) ==
    \E i \in 1..(Len(s) - Len(sub) + 1) : SubSeq(s, i, i + Len(sub) - 1) = sub

\* s.startswith(prefix)
StartsWith(s, prefix) ==
    Len(prefix) <= Len(s) /\ SubSeq(s, 1, Len(prefix)) = prefix

\* any(word in s for word in words), words a sequence or a set of strings
AnyIn(words, s) == \E w \in words : Contains(s, w)

RECURSIVE LStrip(_)
LStrip(s) ==
    IF Len(s) > 0 /\ SubSeq(s, 1, 1) = " " THEN LStrip(SubSeq(s, 2, Len(s))) ELSE s

RECURSIVE RStrip(_)
RStrip(s) ==
    IF Len(s) > 0 /\ SubSeq(s, Len(s), Len(s)) = " "
    THEN RStrip(SubSeq(s, 1, Len(s) - 1)) ELSE s

\* str.strip(): the inputs hold no white space but the space
Strip(s) == RStrip(LStrip(s))

RECURSIVE Remove(_, _)
\* s.replace(old, ''): every occurrence, left to right, not overlapping
Remove(s, old) ==
    IF Len(s) < Len(old) THEN s
    ELSE IF SubSeq(s, 1, Len(old)) = old
         THEN Remove(SubSeq(s, Len(old) + 1, Len(s)), old)
         ELSE SubSeq(s, 1, 1) \o Remove(SubSeq(s, 2, Len(s)), old)

RECURSIVE RemoveFirst(_, _)
\* s.replace(old, '', 1): the first occurrence only
RemoveFirst(s, old) ==
    IF Len(s) < Len(old) THEN s
    ELSE IF SubSeq(s, 1, Len(old)) = old
         THEN SubSeq(s, Len(old) + 1, Len(s))
         ELSE SubSeq(s, 1, 1) \o RemoveFirst(SubSeq(s, 2, Len(s)), old)

RECURSIVE RemoveEach(_, _)
\* for word in words: s = s.replace(word, '')
RemoveEach(s, words) ==
    IF Len(words) = 0 THEN s
    ELSE RemoveEach(Remove(s, Head(words)), Tail(words))

\* the elements of a sequence
Range(seq) == {seq[i] : i \in 1..Len(seq)}

-----------------------------------------------------------------------------
(* binary64 arithmetic of the emotional state                               *)
(*                                                                         *)
(* satisfaction and rapport are Python floats in [0.5, 1.0].  A binary64   *)
(* value v of that range is k * 2^-53 for an integer k <= 2^53, which is   *)
(* held here as <<k \div 2^27, k % 2^27>>, so that an addition is computed *)
(* to the last bit.  Adding the constant 0.02 (0.05) to a value of         *)
(* [0.5, 1.0) rounds to nearest, which adds the same whole number of       *)
(* 2^-53 each time: RapportStep (SatisfactionStep).                        *)

Limb == 2^27

\* 1.0, the clamp of min(1.0, ...)
FloatOne == <<67108864, 0>>

\* 0.0
FloatZero == <<0, 0>>

\* emotional_state["rapport"] at construction: 0.5
RapportInit == <<33554432, 0>>

\* emotional_state["satisfaction"] at construction: 0.8 (binary64 nearest)
SatisfactionInit == <<53687091, 26843546>>

\* the 0.02 of rapport + 0.02, rounded to a multiple of 2^-53
RapportStep == <<1342177, 37580964>>

\* the 0.05 of satisfaction + 0.05, rounded to a multiple of 2^-53
SatisfactionStep == <<3355443, 26843546>>

\* the 0.7 of rapport > 0.7 (binary64 nearest)
PlayfulRapport == <<46976204, 107374182>>

\* the 0.5 of rapport < 0.5
FlavorRapport == <<33554432, 0>>

\* the 0.8 of rapport > 0.8 (binary64 nearest)
CasualRapport == <<53687091, 26843546>>

\* a + b
FAdd(a, b) ==
    LET lo == a[2] + b[2]
    IN  <<a[1] + b[1] + (lo \div Limb), lo % Limb>>

\* a < b
FLess(a, b) == a[1] < b[1] \/ (a[1] = b[1] /\ a[2] < b[2])

\* a <= b
FLeq(a, b) == a = b \/ FLess(a, b)

\* ClampOne without its clamp
ClampNone(a) == a

\* min(1.0, a)
ClampOne(a) == IF FLess(FloatOne, a) THEN FloatOne ELSE a

\* seconds in an hour: the 3600 of session_duration
SecondsPerHour == 3600

\* seconds in a day: timedelta.seconds is the seconds part, below one day
SecondsPerDay == 86400

\* energy_level is held in units of 1/EnergyOne: (d - 2) * 0.1 hours is
\* (seconds - 7200) / 36000, so every computed level is a whole number of units
EnergyOne == SecondsPerHour * 10

\* the 0.5 of max(0.5, ...)
EnergyFloor == EnergyOne \div 2

\* the 2 (hours) of session_duration > 2, in seconds
EnergyGrace == 2 * SecondsPerHour

-----------------------------------------------------------------------------
(* ConversationManager *)

\* ConversationManager.__init__: max_history
max_history == 10

\* the turn add_message builds
Message(role, content, now) ==
    [role |-> role, content |-> content, timestamp |-> now]

\* DequeAppend on a deque that has no maxlen
DequeAppendUnbounded(h, m) == Append(h, m)

\* a full deque that refuses the new turn
DequeAppendKeepsOldest(h, m) ==
    IF Len(h) >= max_history THEN h ELSE Append(h, m)

\* deque(maxlen = max_history).append
DequeAppend(h, m) ==
    IF Len(h) >= max_history THEN Tail(h) \o <<m>> ELSE Append(h, m)

\* ConversationManager.add_message
add_message(h, role, content, now) == DequeAppend(h, Message(role, content, now))

\* the topics table of detect_topic, in dict order
topics == <<
    [topic |-> "coding",
     keywords |-> <<"code", "programming", "debug", "error", "function", "python",
                    "javascript", "git", "commit", "repository", "variable",
                    "class", "api">>],
    [topic |-> "research",
     keywords |-> <<"research", "search", "find", "learn", "explain", "what is",
                    "how does", "tell me about", "information">>],
    [topic |-> "tasks",
     keywords |-> <<"task", "todo", "reminder", "deadline", "meeting", "schedule",
                    "note", "complete">>],
    [topic |-> "system",
     keywords |-> <<"open", "close", "volume", "brightness", "wifi", "type",
                    "window", "application">>] >>

\* detect_topic with the last topic of the table that has a keyword in the text
detect_topic_last(t) ==
    LET text_lower == Lower(t)
        hits == {i \in 1..Len(topics) : AnyIn(Range(topics[i].keywords), text_lower)}
    IN  IF hits = {} THEN NoText
        ELSE topics[CHOOSE i \in hits : \A j \in hits : i >= j].topic

\* ConversationManager.detect_topic
detect_topic(t) ==
    LET text_lower == Lower(t)
        hits == {i \in 1..Len(topics) : AnyIn(Range(topics[i].keywords), text_lower)}
    IN  IF hits = {} THEN NoText
        ELSE topics[CHOOSE i \in hits : \A j \in hits : i <= j].topic

\* update_topic with no test of the topic found
update_topic_always(topic, t) == detect_topic(t)

\* ConversationManager.update_topic: the new current_topic
update_topic(topic, t) ==
    LET detected == detect_topic(t)
    IN  IF detected # NoText THEN detected ELSE topic

-----------------------------------------------------------------------------
(* AdvancedAI.analyze_sentiment *)

positive_words == <<"good", "great", "awesome", "thanks", "perfect", "excellent",
                    "wonderful", "love", "amazing", "fantastic", "appreciate",
                    "helpful">>

negative_words == <<"bad", "error", "problem", "issue", "wrong", "failed", "broken",
                    "stuck", "help", "confused", "frustrated", "not working",
                    "crash">>

urgent_words == <<"urgent", "emergency", "critical", "asap", "immediately">>

\* WordCount counting every occurrence of every word
WordCountOccurrences(words, text_lower) ==
    LET hits == {<<i, k>> \in (1..Len(words)) \X (1..Len(text_lower)) :
                    k + Len(words[i]) - 1 <= Len(text_lower)
                    /\ SubSeq(text_lower, k, k + Len(words[i]) - 1) = words[i]}
    IN  Cardinality(hits)

\* sum(1 for word in words if word in text_lower)
WordCount(words, text_lower) ==
    Cardinality({i \in 1..Len(words) : Contains(text_lower, words[i])})

\* analyze_sentiment comparing the counts before it looks for urgency
\* a classifier that reads the mood of the session before the text
analyze_sentiment_by_mood(t) ==
    IF mood = "concerned" THEN "negative"
    ELSE IF AnyIn(Range(urgent_words), Lower(t)) THEN "urgent"
    ELSE "neutral"

analyze_sentiment_polarity_first(t) ==
    LET text_lower == Lower(t)
        positive_count == Cardinality({i \in 1..Len(positive_words) :
                                          Contains(text_lower, positive_words[i])})
        negative_count == Cardinality({i \in 1..Len(negative_words) :
                                          Contains(text_lower, negative_words[i])})
    IN  IF positive_count > negative_count THEN "positive"
        ELSE IF negative_count > positive_count THEN "negative"
        ELSE IF AnyIn(Range(urgent_words), text_lower) THEN "urgent"
        ELSE "neutral"

analyze_sentiment(t) ==
    LET text_lower == Lower(t)
        positive_count == WordCount(positive_words, text_lower)
        negative_count == WordCount(negative_words, text_lower)
    IN  IF AnyIn(Range(urgent_words), text_lower) THEN "urgent"
        ELSE IF positive_count > negative_count THEN "positive"
        ELSE IF negative_count > positive_count THEN "negative"
        ELSE "neutral"

-----------------------------------------------------------------------------
(* AdvancedAI._update_emotional_state *)

\* satisfaction after the update
NextSatisfaction(sat, interaction_success) ==
    IF interaction_success THEN ClampOne(FAdd(sat, SatisfactionStep)) ELSE sat

\* NextRapport starting over where it should clamp
NextRapportWraps(rap) ==
    IF FLess(FloatOne, FAdd(rap, RapportStep)) THEN RapportInit
    ELSE FAdd(rap, RapportStep)

\* rapport after the update
NextRapport(rap) == ClampOne(FAdd(rap, RapportStep))

\* NextMood answering a neutral user with the supportive mood
NextMoodSupportive(user_sentiment, rap) ==
    IF user_sentiment = "negative" \/ user_sentiment = "urgent" THEN "concerned"
    ELSE IF user_sentiment = "positive"
         THEN IF FLess(PlayfulRapport, rap) THEN "playful" ELSE "enthusiastic"
         ELSE "supportive"

\* NextMood with no case for an urgent user
NextMoodNoUrgent(user_sentiment, rap) ==
    IF user_sentiment = "negative" THEN "concerned"
    ELSE IF user_sentiment = "positive"
         THEN IF FLess(PlayfulRapport, rap) THEN "playful" ELSE "enthusiastic"
         ELSE "focused"

\* current_mood after the update; rap is the rapport already incremented
NextMood(user_sentiment, rap) ==
    IF user_sentiment = "negative" \/ user_sentiment = "urgent" THEN "concerned"
    ELSE IF user_sentiment = "positive"
         THEN IF FLess(PlayfulRapport, rap) THEN "playful" ELSE "enthusiastic"
         ELSE "focused"

\* (datetime.now() - session_start).seconds
SessionSeconds(now) == now % SecondsPerDay

\* energy_level after the update
NextEnergy(en, now) ==
    LET seconds == SessionSeconds(now)
        level == EnergyOne - (seconds - EnergyGrace)
    IN  IF seconds > EnergyGrace
        THEN (IF level > EnergyFloor THEN level ELSE EnergyFloor)
        ELSE en

-----------------------------------------------------------------------------
(* AdvancedAI: the response pipeline of generate_smart_response *)

\* str.upper() on one character
UpperChar(c) ==
    CASE c = "a" -> "A" [] c = "b" -> "B" [] c = "c" -> "C" [] c = "d" -> "D"
      [] c = "e" -> "E" [] c = "f" -> "F" [] c = "g" -> "G" [] c = "h" -> "H"
      [] c = "i" -> "I" [] c = "j" -> "J" [] c = "k" -> "K" [] c = "l" -> "L"
      [] c = "m" -> "M" [] c = "n" -> "N" [] c = "o" -> "O" [] c = "p" -> "P"
      [] c = "q" -> "Q" [] c = "r" -> "R" [] c = "s" -> "S" [] c = "t" -> "T"
      [] c = "u" -> "U" [] c = "v" -> "V" [] c = "w" -> "W" [] c = "x" -> "X"
      [] c = "y" -> "Y" [] c = "z" -> "Z" [] OTHER -> c

prefixes_to_remove == <<"As ZEE, ", "As an AI assistant, ", "As your AI assistant, ",
                        "Based on the context, ", "Sure! ", "Certainly! ">>

\* AdvancedAI._filter_response
filter_response(response) ==
    LET stripped == Strip(response)
        hits == {i \in 1..Len(prefixes_to_remove) :
                    StartsWith(stripped, prefixes_to_remove[i])}
        cut == IF hits = {} THEN stripped
               ELSE LET first == CHOOSE i \in hits : \A j \in hits : i <= j
                    IN  SubSeq(stripped, Len(prefixes_to_remove[first]) + 1, Len(stripped))
    IN  IF Len(cut) > 0
        THEN UpperChar(SubSeq(cut, 1, 1)) \o SubSeq(cut, 2, Len(cut))
        ELSE cut

\* the personality traits read by the pipeline, in hundredths
personality == [enthusiasm_level |-> 80, empathy |-> 90]

\* the flavors table of _get_personality_flavor (the emoji of its texts left out)
flavors(m) ==
    CASE m = "enthusiastic" ->
           <<"I'm excited to help with that!", "Great question! Let me dive into this.",
             "Ooh, this is interesting!", "Love it! Here's what I found:">>
      [] m = "supportive" ->
           <<"I'm here to help you through this.", "Let's work on this together.",
             "Don't worry, we'll figure this out.", "I've got your back on this.">>
      [] m = "playful" ->
           <<"Alright, time to work some magic!", "You know I love a good challenge!",
             "Haha, I was hoping you'd ask that!", "Easy peasy! Check this out:">>
      [] m = "concerned" ->
           <<"I understand this is frustrating. Let me help.",
             "I can see this is important. Let's fix it.",
             "No worries, I'm on it right away.", "Let's tackle this problem together.">>
      [] OTHER ->
           <<"Let me focus on that for you.", "Here's what you need:",
             "Got it. Working on this now.", "On it.">>

\* AdvancedAI._get_personality_flavor: the values random may make it return
personality_flavors(m, rap) ==
    IF FLess(rap, FlavorRapport) THEN {""}
    ELSE IF personality.enthusiasm_level > 70
         THEN {""} \cup {f \o " " : f \in Range(flavors(m))}
         ELSE {""}

milestone_remark ==
    "\n\nBy the way, we've had some great conversations together! Always happy to help."

encouraging == <<"You're doing great working through this!",
                 "Hang in there, we're making progress!",
                 "I know this can be tricky, but you've got this!">>

casual_remarks == <<"Glad I could help!", "Awesome! Let me know if you need anything else!",
                    "Perfect! Always happy to assist!", "Nice! Shout if you need more help!">>

\* AdvancedAI._add_emotional_touch: the values random may make it return
emotional_touches(response, user_sentiment, count, rap) ==
    LET r1 == IF count % 10 = 0 /\ count > 0 /\ FLess(PlayfulRapport, rap)
              THEN response \o milestone_remark ELSE response
        s2 == IF user_sentiment = "negative" /\ personality.empathy > 70
              THEN {r1} \cup {r1 \o "\n\n" \o e : e \in Range(encouraging)}
              ELSE {r1}
    IN  IF FLess(CasualRapport, rap) /\ user_sentiment = "positive"
        THEN s2 \cup {r2 \o "\n\n" \o c : r2 \in s2, c \in Range(casual_remarks)}
        ELSE s2

\* what research.ai.generate_response may return: None, or a model's text
GenerationResults == {NoText, "Sure! python is a language"}

\* the responses generate_smart_response may build from a text the model produced
smart_responses(raw, user_sentiment, m, count, rap) ==
    UNION {emotional_touches(intro \o filter_response(raw), user_sentiment, count, rap) :
              intro \in personality_flavors(m, rap)}

-----------------------------------------------------------------------------
(* AdvancedAI.improve_query_understanding *)

pronouns == <<"it", "this", "that", "they", "them", "those", "these">>

followup_starters == <<"and", "also", "what about", "how about", "why", "can you",
                       "tell me more">>

comparison_words == <<"compare", "difference", "versus", "vs", "or">>

howto_starts == <<"how to", "how do i", "how can i">>

\* s[:n]
Take(s, n) == SubSeq(s, 1, IF Len(s) < n THEN Len(s) ELSE n)

\* list(conversation_history)[-3:]
recent_messages(h) == SubSeq(h, IF Len(h) > 3 THEN Len(h) - 2 ELSE 1, Len(h))

\* next((msg['content'] for msg in reversed(recent) if msg['role'] == 'user'), None)
last_user_msg(recent) ==
    LET users == {i \in 1..Len(recent) : recent[i].role = "user"}
    IN  IF users = {} THEN NoText
        ELSE recent[CHOOSE i \in users : \A j \in users : j <= i].content

\* the pronoun test: ' pronoun ' in ' query_lower ', or query_lower starts with
\* 'pronoun '
has_pronoun(query_lower) ==
    \E i \in 1..Len(pronouns) :
        \/ Contains(" " \o query_lower \o " ", " " \o pronouns[i] \o " ")
        \/ StartsWith(query_lower, pronouns[i] \o " ")

\* improve_query_understanding appending the step-by-step instruction to a query
\* no rule matches
improve_query_understanding_always(query, h, topic) ==
    query \o " [Provide step-by-step instructions]"

\* improve_query_understanding testing the comparison keywords before the
\* pronouns
improve_query_understanding_comparison_first(query, h, topic) ==
    LET query_lower == Lower(query)
    IN  IF AnyIn(Range(comparison_words), query_lower)
        THEN query \o " [Provide clear comparison with pros/cons]"
        ELSE IF has_pronoun(query_lower) /\ Truthy(topic)
        THEN query \o " [Context: discussing " \o topic \o "]"
        ELSE query

\* improve_query_understanding(query) in a session of history h and topic topic
improve_query_understanding(query, h, topic) ==
    LET query_lower == Lower(query)
        recent == recent_messages(h)
        last == last_user_msg(recent)
    IN  IF has_pronoun(query_lower) /\ Truthy(topic)
        THEN query \o " [Context: discussing " \o topic \o "]"
        ELSE IF has_pronoun(query_lower) /\ recent # <<>> /\ Truthy(last)
        THEN query \o " [Previous question: " \o Take(last, 100) \o "]"
        ELSE IF (\E i \in 1..Len(followup_starters) :
                    StartsWith(query_lower, followup_starters[i])) /\ recent # <<>>
        THEN query \o " [Continuing from: "
                   \o Take(recent[Len(recent)].content, 150) \o "]"
        ELSE IF AnyIn(Range(comparison_words), query_lower)
        THEN query \o " [Provide clear comparison with pros/cons]"
        ELSE IF \E i \in 1..Len(howto_starts) : StartsWith(query_lower, howto_starts[i])
        THEN query \o " [Provide step-by-step instructions]"
        ELSE query

\* the turn generate_smart_response stores for the utterance, holding the
\* rewritten query
UserTurnRewritten(query, improved_query, now) == Message("user", improved_query, now)

\* the turn generate_smart_response stores for the utterance
UserTurn(query, improved_query, now) == Message("user", query, now)

-----------------------------------------------------------------------------
(* AdvancedAI: the learning record and its file ai_learning.json *)

\* A JSON document is held as a record: wellformed tells that it is an object
\* with the keys common_queries and user_patterns; common_queries is the dict
\* query -> {count, topic, last_response_length} in insertion order, and
\* user_patterns the dict period -> topic -> count, flattened.

\* the record _load_learning_data returns when it reads none
DefaultRecord == [wellformed |-> TRUE, common_queries |-> <<>>, user_patterns |-> <<>>]

\* the document {}: valid JSON that holds no record
EmptyObject == [wellformed |-> FALSE, common_queries |-> <<>>, user_patterns |-> <<>>]

\* ai_learning.json does not exist
MissingFile == [kind |-> "missing", data |-> EmptyObject]

\* ai_learning.json exists and open() raises
UnreadableFile == [kind |-> "unreadable", data |-> EmptyObject]

\* ai_learning.json exists and json.load raises
MalformedFile == [kind |-> "malformed", data |-> EmptyObject]

\* ai_learning.json holds the JSON document data
JsonFile(data) == [kind |-> "json", data |-> data]

\* _load_learning_data reads the file
load_learning_data(file) ==
    IF file.kind = "json" THEN file.data ELSE DefaultRecord

\* what _load_learning_data prints or logs while it reads the file
load_events(file) == <<>>

\* the outcomes of open(.., 'w') and json.dump in _save_learning_data
SaveOutcomes == {"written", "open_fails", "dump_fails"}

\* the file after _save_learning_data: open(.., 'w') truncates it before
\* json.dump writes
save_learning_data(file, data, outcome) ==
    CASE outcome = "written" -> JsonFile(data)
      [] outcome = "dump_fails" -> MalformedFile
      [] OTHER -> file

\* what _save_learning_data prints
save_events(outcome) ==
    IF outcome = "written" THEN <<>> ELSE <<"Error saving learning data">>

\* the number of distinct queries between two writes of the record
BatchSize == 5

\* the hour of the day at which the session started
StartHour == 9

\* datetime.now().hour at a session age of now seconds
CurrentHour(now) == (StartHour + now \div SecondsPerHour) % 24

time_period(current_hour) ==
    IF 6 <= current_hour /\ current_hour < 12 THEN "morning"
    ELSE IF 12 <= current_hour /\ current_hour < 18 THEN "afternoon"
    ELSE "evening"

\* the common_queries part of _learn_from_query
learn_common_queries(cq, query_lower, response, topic) ==
    LET entered == IF \E i \in 1..Len(cq) : cq[i].query = query_lower THEN cq
                   ELSE Append(cq, [query |-> query_lower, count |-> 0,
                                    topic |-> topic, last_response_length |-> 0])
        k == CHOOSE i \in 1..Len(entered) : entered[i].query = query_lower
    IN  [entered EXCEPT ![k] = [query |-> query_lower, count |-> @.count + 1,
                                topic |-> topic,
                                last_response_length |-> Len(response)]]

\* the user_patterns part of _learn_from_query
learn_user_patterns(up, period, topic) ==
    LET entered == IF \E i \in 1..Len(up) : up[i].period = period /\ up[i].topic = topic
                   THEN up
                   ELSE Append(up, [period |-> period, topic |-> topic, count |-> 0])
        k == CHOOSE i \in 1..Len(entered) :
                 entered[i].period = period /\ entered[i].topic = topic
    IN  [entered EXCEPT ![k].count = @ + 1]

\* _learn_from_query raises: the loaded document has no common_queries
learn_raises(data) == ~data.wellformed

\* the record after _learn_from_query(query, response)
\* _learn_from_query keyed by the query as spoken
learn_from_query_raw_key(data, query, response, topic, current_hour) ==
    [wellformed |-> TRUE,
     common_queries |-> learn_common_queries(data.common_queries, query,
                                             response, topic),
     user_patterns |-> learn_user_patterns(data.user_patterns,
                                           time_period(current_hour),
                                           IF Truthy(topic) THEN topic ELSE "general")]

learn_from_query(data, query, response, topic, current_hour) ==
    [wellformed |-> TRUE,
     common_queries |-> learn_common_queries(data.common_queries, Lower(query),
                                             response, topic),
     user_patterns |-> learn_user_patterns(data.user_patterns,
                                           time_period(current_hour),
                                           IF Truthy(topic) THEN topic ELSE "general")]

\* the test that ends _learn_from_query
should_save(data) == Len(data.common_queries) % BatchSize = 0

-----------------------------------------------------------------------------
(* ZEEService.process_command: the rule table *)

\* the stop-speech keywords without the bare word 'stop'
stop_words_phrases == <<"quiet", "shut up", "stop talking", "stop speaking">>

stop_words == <<"stop", "quiet", "shut up", "stop talking", "stop speaking">>

briefing_phrases == <<"what's special today", "whats special today", "daily briefing",
                      "what's today", "today's briefing">>

sleep_words == <<"sleep", "goodbye", "stop listening">>

research_words == <<"research", "search", "tell me about">>

help_words == <<"help", "what can you do">>

typing_words == <<"type", "write", "enter", "search for">>

task_add_phrases == <<"add task", "new task", "create task", "remind me to", "todo">>

task_list_phrases == <<"list tasks", "show tasks", "my tasks", "what tasks", "task summary">>

task_complete_phrases == <<"complete task", "task done">>

note_phrases == <<"take note", "make note", "note this", "remember this">>

workspace_phrases == <<"what am i working on", "current context", "workspace status">>

\* the condition of each branch of the if/elif chain, on command_lower
Matches(cat, command_lower) ==
    CASE cat = "stop_speech"      -> AnyIn(Range(stop_words), command_lower)
      [] cat = "briefing"         -> AnyIn(Range(briefing_phrases), command_lower)
      [] cat = "sleep"            -> AnyIn(Range(sleep_words), command_lower)
      [] cat = "open_app"         -> Contains(command_lower, "open")
      [] cat = "volume"           -> Contains(command_lower, "volume")
      [] cat = "research"         -> AnyIn(Range(research_words), command_lower)
      [] cat = "help"             -> AnyIn(Range(help_words), command_lower)
      [] cat = "typing"           -> AnyIn(Range(typing_words), command_lower)
      [] cat = "task_add"         -> AnyIn(Range(task_add_phrases), command_lower)
      [] cat = "task_list"        -> AnyIn(Range(task_list_phrases), command_lower)
      [] cat = "task_complete"    -> AnyIn(Range(task_complete_phrases), command_lower)
      [] cat = "note"             -> AnyIn(Range(note_phrases), command_lower)
      [] cat = "workspace_status" -> AnyIn(Range(workspace_phrases), command_lower)
      [] cat = "git_status"       -> Contains(command_lower, "git status")
      [] OTHER                    -> FALSE

\* Category with the sleep branch written above the stop branch
\* process_command without the help branch
CategoryNoHelp(command_lower) ==
    IF Matches("stop_speech", command_lower) THEN "stop_speech"
    ELSE IF Matches("briefing", command_lower) THEN "briefing"
    ELSE IF Matches("sleep", command_lower) THEN "sleep"
    ELSE IF Matches("open_app", command_lower) THEN "open_app"
    ELSE IF Matches("volume", command_lower) THEN "volume"
    ELSE IF Matches("research", command_lower) THEN "research"
    ELSE IF Matches("typing", command_lower) THEN "typing"
    ELSE IF Matches("task_add", command_lower) THEN "task_add"
    ELSE IF Matches("task_list", command_lower) THEN "task_list"
    ELSE IF Matches("task_complete", command_lower) THEN "task_complete"
    ELSE IF Matches("note", command_lower) THEN "note"
    ELSE IF Matches("workspace_status", command_lower) THEN "workspace_status"
    ELSE IF Matches("git_status", command_lower) THEN "git_status"
    ELSE "general"

CategorySleepFirst(command_lower) ==
    IF Matches("sleep", command_lower) THEN "sleep"
    ELSE IF Matches("stop_speech", command_lower) THEN "stop_speech"
    ELSE IF Matches("briefing", command_lower) THEN "briefing"
    ELSE IF Matches("open_app", command_lower) THEN "open_app"
    ELSE IF Matches("volume", command_lower) THEN "volume"
    ELSE IF Matches("research", command_lower) THEN "research"
    ELSE IF Matches("help", command_lower) THEN "help"
    ELSE IF Matches("typing", command_lower) THEN "typing"
    ELSE IF Matches("task_add", command_lower) THEN "task_add"
    ELSE IF Matches("task_list", command_lower) THEN "task_list"
    ELSE IF Matches("task_complete", command_lower) THEN "task_complete"
    ELSE IF Matches("note", command_lower) THEN "note"
    ELSE IF Matches("workspace_status", command_lower) THEN "workspace_status"
    ELSE IF Matches("git_status", command_lower) THEN "git_status"
    ELSE "general"

\* Category with the typing branch written above the research branch
CategoryTypingFirst(command_lower) ==
    IF Matches("stop_speech", command_lower) THEN "stop_speech"
    ELSE IF Matches("briefing", command_lower) THEN "briefing"
    ELSE IF Matches("sleep", command_lower) THEN "sleep"
    ELSE IF Matches("open_app", command_lower) THEN "open_app"
    ELSE IF Matches("volume", command_lower) THEN "volume"
    ELSE IF Matches("typing", command_lower) THEN "typing"
    ELSE IF Matches("research", command_lower) THEN "research"
    ELSE IF Matches("help", command_lower) THEN "help"
    ELSE IF Matches("task_add", command_lower) THEN "task_add"
    ELSE IF Matches("task_list", command_lower) THEN "task_list"
    ELSE IF Matches("task_complete", command_lower) THEN "task_complete"
    ELSE IF Matches("note", command_lower) THEN "note"
    ELSE IF Matches("workspace_status", command_lower) THEN "workspace_status"
    ELSE IF Matches("git_status", command_lower) THEN "git_status"
    ELSE "general"

\* the branch of the if/elif chain that runs; "general" is its else
Category(command_lower) ==
    IF Matches("stop_speech", command_lower) THEN "stop_speech"
    ELSE IF Matches("briefing", command_lower) THEN "briefing"
    ELSE IF Matches("sleep", command_lower) THEN "sleep"
    ELSE IF Matches("open_app", command_lower) THEN "open_app"
    ELSE IF Matches("volume", command_lower) THEN "volume"
    ELSE IF Matches("research", command_lower) THEN "research"
    ELSE IF Matches("help", command_lower) THEN "help"
    ELSE IF Matches("typing", command_lower) THEN "typing"
    ELSE IF Matches("task_add", command_lower) THEN "task_add"
    ELSE IF Matches("task_list", command_lower) THEN "task_list"
    ELSE IF Matches("task_complete", command_lower) THEN "task_complete"
    ELSE IF Matches("note", command_lower) THEN "note"
    ELSE IF Matches("workspace_status", command_lower) THEN "workspace_status"
    ELSE IF Matches("git_status", command_lower) THEN "git_status"
    ELSE "general"

\* a call of a collaborator and the success value it returned
Call(fn, arg, ok) == [fn |-> fn, arg |-> arg, ok |-> ok]

\* DailyBriefing.format_briefing: the text the collaborator composes
BriefingText == "Good day! Today is Monday."

\* WorkspaceHelper.get_context_summary with no window title
WorkspaceSummary == "Ready to assist"

\* WorkspaceHelper.get_git_status in a repository
GitStatusText == "Working tree clean"

\* the research_and_explain result handed to voice.speak
ResearchResult == "research result"

HelpText == "I'm your AI co-worker with advanced context awareness!"

\* TaskManager.list_tasks(status)
list_tasks(ts, status) == SelectSeq(ts, LAMBDA t : t.status = status)

RECURSIVE JoinDescriptions(_)
\* ", ".join(t["description"] for t in ts)
JoinDescriptions(ts) ==
    IF Len(ts) = 0 THEN ""
    ELSE IF Len(ts) = 1 THEN ts[1].description
    ELSE ts[1].description \o ", " \o JoinDescriptions(Tail(ts))

\* TaskManager.get_summary
get_summary(ts) ==
    LET pending == list_tasks(ts, "pending")
        completed == Len(list_tasks(ts, "completed"))
        s1 == "You have " \o ToString(Len(pending)) \o " pending task"
        s2 == IF Len(pending) # 1 THEN s1 \o "s" ELSE s1
        s3 == IF completed > 0 THEN s2 \o " and " \o ToString(completed) \o " completed" ELSE s2
        top == SubSeq(pending, 1, IF Len(pending) < 3 THEN Len(pending) ELSE 3)
    IN  IF Len(pending) = 0 THEN "You have no pending tasks. Great job!"
        ELSE s3 \o ". Top tasks: " \o JoinDescriptions(top)

\* TaskManager.add_task
add_task(ts, description) ==
    Append(ts, [id |-> Len(ts) + 1, description |-> description, status |-> "pending"])

\* TaskManager.complete_task: the first task with the id is completed
complete_task(ts, task_id) ==
    LET hits == {i \in 1..Len(ts) : ts[i].id = task_id}
    IN  IF hits = {} THEN ts
        ELSE LET first == CHOOSE i \in hits : \A j \in hits : i <= j
             IN  [ts EXCEPT ![first].status = "completed"]

\* the open branch: what is spoken, ok being open_application's result
OpenSpoken(command_lower, ok) ==
    LET app_name == Strip(Remove(command_lower, "open"))
    IN  <<"On it!">> \o
        (IF Contains(command_lower, "browser") \/ Contains(command_lower, "chrome")
         THEN <<"Browser opened">>
         ELSE IF Contains(command_lower, "google") THEN <<"Google opened">>
         ELSE IF Contains(command_lower, "youtube") THEN <<"YouTube opened">>
         ELSE IF ok THEN <<app_name \o " opened">>
         ELSE <<"Sorry, couldn't find " \o app_name>>)

\* the open branch: the collaborator calls
OpenCalls(command_lower, ok) ==
    IF Contains(command_lower, "browser") \/ Contains(command_lower, "chrome")
    THEN <<Call("open_application", "browser", ok)>>
    ELSE IF Contains(command_lower, "google")
    THEN <<Call("open_url", "https://www.google.com", ok)>>
    ELSE IF Contains(command_lower, "youtube")
    THEN <<Call("open_url", "https://www.youtube.com", ok)>>
    ELSE <<Call("open_application", Strip(Remove(command_lower, "open")), ok)>>

\* the volume branch: 1 up, 2 down, 3 mute, 0 none of them
VolumeBranch(command_lower) ==
    IF Contains(command_lower, "up") \/ Contains(command_lower, "increase") THEN 1
    ELSE IF Contains(command_lower, "down") \/ Contains(command_lower, "decrease") THEN 2
    ELSE IF Contains(command_lower, "mute") THEN 3
    ELSE 0

VolumeSpoken(command_lower) ==
    CASE VolumeBranch(command_lower) = 1 -> <<"Volume up">>
      [] VolumeBranch(command_lower) = 2 -> <<"Volume down">>
      [] VolumeBranch(command_lower) = 3 -> <<"Muted">>
      [] OTHER -> <<>>

VolumeCalls(command_lower, ok) ==
    CASE VolumeBranch(command_lower) = 1 -> <<Call("adjust_volume", "change=10", ok)>>
      [] VolumeBranch(command_lower) = 2 -> <<Call("adjust_volume", "change=-10", ok)>>
      [] VolumeBranch(command_lower) = 3 -> <<Call("adjust_volume", "level=0", ok)>>
      [] OTHER -> <<>>

\* the research branch: the topic left of the command
ResearchTopic(command_lower) ==
    Strip(Remove(Remove(Remove(command_lower, "research"), "search"), "tell me about"))

typing_removed == <<"type", "Type", "write", "Write", "enter", "Enter", "search for",
                    "Search for", "in my browser", "in browser", "on my screen",
                    "something", "this">>

\* the typing branch: text_to_type, taken from the command as spoken
TextToType(cmd) == Strip(RemoveEach(cmd, typing_removed))

task_removed == <<"add task", "new task", "create task", "remind me to", "todo", "to do">>

TaskDescription(command_lower) == Strip(RemoveEach(command_lower, task_removed))

note_removed == <<"take note", "make note", "note this", "remember this", "that">>

NoteContent(command_lower) == Strip(RemoveEach(command_lower, note_removed))

\* what a rule-table branch speaks; ok is the result of the collaborator it calls
RuleSpoken(cat, cmd, command_lower, ok, ts) ==
    CASE cat = "stop_speech" -> <<>>
      [] cat = "briefing" -> <<BriefingText>>
      [] cat = "sleep" -> <<"Going to sleep. Say 'Hey ZEE' to wake me up!">>
      [] cat = "open_app" -> OpenSpoken(command_lower, ok)
      [] cat = "volume" -> VolumeSpoken(command_lower)
      [] cat = "research" ->
           IF ResearchTopic(command_lower) # ""
           THEN <<"Researching " \o ResearchTopic(command_lower), ResearchResult>>
           ELSE <<"What would you like me to research?">>
      [] cat = "help" -> <<HelpText>>
      [] cat = "typing" ->
           IF TextToType(cmd) # ""
           THEN (IF ok THEN <<"Typing">> ELSE <<>>)
           ELSE <<"What should I type?">>
      [] cat = "task_add" ->
           IF TaskDescription(command_lower) # ""
           THEN <<"Added to your tasks: " \o TaskDescription(command_lower)>>
           ELSE <<"What task should I add?">>
      [] cat = "task_list" -> <<get_summary(ts)>>
      [] cat = "task_complete" ->
           IF Len(list_tasks(ts, "pending")) > 0
           THEN <<"Marked as complete: " \o list_tasks(ts, "pending")[1].description>>
           ELSE <<"No pending tasks to complete">>
      [] cat = "note" ->
           IF NoteContent(command_lower) # "" THEN <<"Note saved">>
           ELSE <<"What should I note?">>
      [] cat = "workspace_status" -> <<WorkspaceSummary>>
      [] cat = "git_status" ->
           IF ok THEN <<"Git status: " \o GitStatusText>>
           ELSE <<"Not in a git repository">>

\* the collaborator calls of a rule-table branch
RuleCalls(cat, cmd, command_lower, ok) ==
    CASE cat = "stop_speech" -> <<Call("stop_speech", "", TRUE)>>
      [] cat = "briefing" -> <<Call("format_briefing", "Karur, India", TRUE)>>
      [] cat = "open_app" -> OpenCalls(command_lower, ok)
      [] cat = "volume" -> VolumeCalls(command_lower, ok)
      [] cat = "research" ->
           IF ResearchTopic(command_lower) # ""
           THEN <<Call("research_and_explain", ResearchTopic(command_lower), ok)>>
           ELSE <<>>
      [] cat = "typing" ->
           IF TextToType(cmd) # "" /\ ok
           THEN <<Call("pyautogui.write", TextToType(cmd), TRUE)>>
           ELSE <<>>
      [] cat = "workspace_status" -> <<Call("get_context_summary", "", TRUE)>>
      [] cat = "git_status" -> <<Call("get_git_status", "", ok)>>
      [] OTHER -> <<>>

\* tasks["tasks"] after a rule-table branch
RuleTasks(cat, command_lower, ts) ==
    CASE cat = "task_add" /\ TaskDescription(command_lower) # "" ->
           add_task(ts, TaskDescription(command_lower))
      [] cat = "task_complete" /\ Len(list_tasks(ts, "pending")) > 0 ->
           complete_task(ts, list_tasks(ts, "pending")[1].id)
      [] OTHER -> ts

\* tasks["notes"] after a rule-table branch
RuleNotes(cat, command_lower, ns) ==
    IF cat = "note" /\ NoteContent(command_lower) # ""
    THEN Append(ns, NoteContent(command_lower))
    ELSE ns

\* the typing branch imports pyautogui, which raises where no display is found
RuleRaises(cat, cmd, ok) == cat = "typing" /\ TextToType(cmd) # "" /\ ~ok

-----------------------------------------------------------------------------
(* Bounds and inputs *)

\* IDLE listens in a run of the service
MaxUtterances == 2

\* add_message calls in a run of the conversation store
MaxAppends == 12

\* utterances heard in a run that fills the history
MaxHeard == 11

\* _update_emotional_state calls in a run of the emotional state
MaxUpdates == 26

\* hours the session clock runs
MaxAgeHours == 28

\* words in a text given to analyze_sentiment
MaxWords == 3

\* _learn_from_query calls in a run of the learning store
MaxLearns == 3

\* calls of _learn_from_query in one run that follows the writes of the record
MaxFlushLearns == 5

\* speak calls in a run of the voice handler
MaxSpeeches == 2

\* add_message calls in a run of the topic of the conversation
MaxTopicTurns == 2

\* what voice.listen may return in IDLE
IdleUtterances ==
    {NoText, "hello there", "Hey ZEE, volume up", "zee", "zee yes", "zee help",
     "hey zee search for python tutorials", "zee stop listening",
     "zee what is python"}

\* what voice.listen may return after "Yes?"
CommandUtterances ==
    {NoText, "volume up", "volume", "search for python tutorials", "search",
     "type hello", "add task buy milk", "list tasks", "task done",
     "take note call bob", "workspace status", "git status", "what's today",
     "goodbye", "quiet", "help", "open firefox", "Thanks that is great"}

\* hours the clock may advance between two steps
TickHours == {1, 5}

-----------------------------------------------------------------------------
(* State *)

Init ==
    /\ wstate = "IDLE"
    /\ heard = NoText
    /\ command = ""
    /\ category = "none"
    /\ spoken = <<>>
    /\ calls = <<>>
    /\ smart_calls = 0
    /\ handled = 0
    /\ history = <<>>
    /\ appended = <<>>
    /\ current_topic = NoText
    /\ interaction_count = 0
    /\ successful_helps = 0
    /\ mood = "enthusiastic"
    /\ energy = EnergyOne
    /\ satisfaction = SatisfactionInit
    /\ rapport = RapportInit
    /\ age = 0
    /\ text = ""
    /\ sentiment = "none"
    /\ tasks = <<>>
    /\ notes = <<>>
    /\ errors = 0
    /\ updated = [sentiment |-> "none", success |-> TRUE]
    /\ improved = NoText
    /\ rewritten = NoText
    /\ learning_data = load_learning_data(MissingFile)
    /\ storage = MissingFile
    /\ loaded = TRUE
    /\ learned = 0
    /\ writes = 0
    /\ log = load_events(MissingFile)
    /\ stop_speaking = FALSE
    /\ use_gtts = TRUE
    /\ speeches = <<>>
    /\ cause = "none"
    /\ detected_topic = NoText
    /\ running = FALSE
    /\ listening = FALSE
    /\ returned = "none"

serviceVars == <<wstate, heard, command, category, spoken, calls, smart_calls,
                 handled, tasks, notes, errors>>

emotionVars == <<interaction_count, successful_helps, mood, energy, satisfaction,
                 rapport, updated>>

rewriteVars == <<improved, rewritten>>

learningVars == <<learning_data, storage, loaded, learned, writes, log>>

voiceVars == <<stop_speaking, use_gtts, speeches, cause, listening, returned>>

-----------------------------------------------------------------------------
(* ZEEService.listen_for_wake_word *)

\* the wake words with a greeting among them
wake_words_with_hello == <<"zee", "hey zee", "ok zee", "hey z", " z ", "z", "hazy",
                           "hey easy", "easy", "the z", "hello">>

wake_words == <<"zee", "hey zee", "ok zee", "hey z", " z ", "z", "hazy", "hey easy",
                "easy", "the z">>

\* the for loop over wake_words: the first wake word in the text, or None
WakeWordFound(text_lower) ==
    LET hits == {i \in 1..Len(wake_words) : Contains(text_lower, wake_words[i])}
    IN  IF hits = {} THEN NoText
        ELSE wake_words[CHOOSE i \in hits : \A j \in hits : i <= j]

\* text_lower.replace(wake_word_found, '', 1).strip()
CommandPart(text_lower, wake) == Strip(RemoveFirst(text_lower, wake))

\* HasImmediateCommand with no least length
HasImmediateCommandAnyLength(command_part) == command_part # ""

\* the test that the command came in the sentence of the wake word
HasImmediateCommand(command_part) == command_part # "" /\ Len(command_part) > 3

\* why VoiceHandler.listen returns None: WaitTimeoutError, no recogniser
\* understood the audio, any other exception
NoneCauses == {"timeout", "unrecognized", "error"}

\* how a listen may end when t was said (NoText: nothing was said)
ListenCauses(t) ==
    IF t = NoText THEN {"timeout", "error"} ELSE {"speech", "unrecognized"}

\* listen with the text of the audio returned whether or not it was recognised
listen_keeps_text(t, why) == t

\* VoiceHandler.listen: the text said when it was recognised, None otherwise
listen(t, why) == IF why = "speech" THEN t ELSE NoText

\* stop_speaking after a handler that spoke the texts said: speak clears it
spoke(flag, said) == IF Len(said) > 0 THEN FALSE ELSE flag

\* ZEEService.start: running is set and greet_user greets; has_name and
\* name_response are what the profile and the listen of greet_user return
ProfileName == "Sam"

GreetName(name_response) ==
    LET name == Strip(Remove(Remove(Remove(Lower(name_response), "my name is"),
                                    "i'm"), "i am"))
        ends == {i \in 1..Len(name) : SubSeq(name, i, i) = " "}
        first == IF ends = {} THEN name
                 ELSE SubSeq(name, 1, (CHOOSE i \in ends : \A j \in ends : i <= j) - 1)
    IN  IF name = "" THEN "Friend"
        ELSE UpperChar(SubSeq(first, 1, 1)) \o SubSeq(first, 2, Len(first))

GreetSpoken(has_name, name_response) ==
    IF has_name
    THEN <<"Hey " \o ProfileName \o "! ZEE is ready. Just say my name whenever you need help!">>
    ELSE <<"Hey! I'm ZEE, your AI assistant. What's your name?">> \o
         (IF Truthy(name_response)
          THEN <<"Nice to meet you, " \o GreetName(name_response) \o
                 "! I'm always here when you need me. Just say 'Hey ZEE'!">>
          ELSE <<"No worries! Just say 'Hey ZEE' whenever you need me.">>)

GreetCalls(has_name, name_response) ==
    (IF ~has_name /\ Truthy(name_response)
     THEN <<Call("set_name", GreetName(name_response), TRUE)>> ELSE <<>>)
    \o <<Call("update_last_use", "", TRUE)>>

NameResponses == {NoText, "my name is alex"}

Start(has_name, name_response) ==
    /\ ~running
    /\ wstate = "IDLE"
    /\ handled = 0
    /\ spoken = <<>>
    /\ running' = TRUE
    /\ spoken' = GreetSpoken(has_name, name_response)
    /\ calls' = GreetCalls(has_name, name_response)
    /\ stop_speaking' = FALSE
    /\ cause' = IF has_name THEN cause
                ELSE IF Truthy(name_response) THEN "speech" ELSE "timeout"
    /\ UNCHANGED <<wstate, heard, command, category, smart_calls, handled, tasks,
                   notes, errors, history, appended, current_topic, emotionVars,
                   age, text, sentiment, rewriteVars, learningVars, use_gtts, listening, returned,
                   speeches, detected_topic>>

\* the listen of the while loop returns t, or None for the cause why
ListenIdleStep(t, why) ==
    /\ running
    /\ wstate = "IDLE"
    /\ handled' = handled + 1
    /\ heard' = listen(t, why)
    /\ cause' = why
    /\ category' = "none"
    /\ calls' = <<>>
    /\ UNCHANGED <<use_gtts, listening, returned, speeches, detected_topic, running>>
    /\ IF Truthy(listen(t, why)) /\ WakeWordFound(Lower(listen(t, why))) # NoText
       THEN LET text_lower == Lower(listen(t, why))
                command_part == CommandPart(text_lower, WakeWordFound(text_lower))
            IN  IF HasImmediateCommand(command_part)
                THEN /\ wstate' = "COMMAND_EXTRACTED"
                     /\ command' = command_part
                     /\ spoken' = <<>>
                ELSE /\ wstate' = "AWAITING_COMMAND"
                     /\ command' = ""
                     /\ spoken' = <<"Yes?">>
       ELSE /\ wstate' = "IDLE"
            /\ command' = ""
            /\ spoken' = <<>>
    /\ stop_speaking' = spoke(stop_speaking, spoken')
    /\ improved' = NoText
    /\ UNCHANGED <<smart_calls, tasks, notes, errors, history, appended,
                   current_topic, emotionVars, age, text, sentiment, rewritten,
                   learningVars>>

\* one listen of the IDLE loop among the MaxUtterances of a run
ListenIdle(t, why) ==
    /\ handled < MaxUtterances
    /\ ListenIdleStep(t, why)

\* the listen after "Yes?" returns c, or None for the cause why
ListenCommand(c, why) ==
    /\ running
    /\ wstate = "AWAITING_COMMAND"
    /\ cause' = why
    /\ UNCHANGED <<use_gtts, listening, returned, speeches, detected_topic, running>>
    /\ IF Truthy(listen(c, why))
       THEN /\ wstate' = "COMMAND_EXTRACTED"
            /\ command' = listen(c, why)
            /\ spoken' = spoken
            /\ stop_speaking' = stop_speaking
       ELSE /\ wstate' = "IDLE"
            /\ command' = ""
            /\ spoken' = Append(spoken, "I didn't catch that.")
            /\ stop_speaking' = FALSE
    /\ UNCHANGED <<heard, category, calls, smart_calls, handled, tasks, notes,
                   errors, history, appended, current_topic, emotionVars, age,
                   text, sentiment, rewriteVars, learningVars>>

\* the loop with no except clause: an exception ends listen_for_wake_word
loop_after_uncaught(raised) == IF raised THEN "STOPPED" ELSE "IDLE"

\* where the while loop is after process_command returned or raised: the except
\* clause prints the exception, sleeps a second, and the loop goes round
loop_after(raised) == "IDLE"

\* process_command(command) takes a branch of the rule table; ok is the result
\* of the collaborator the branch calls
RuleCommand(ok) ==
    LET command_lower == Lower(command)
        cat == Category(command_lower)
        user == Message("user", command, age)
    IN  /\ running
        /\ wstate = "COMMAND_EXTRACTED"
        /\ cat # "general"
        /\ stop_speaking' = IF cat = "stop_speech" THEN TRUE
                            ELSE spoke(stop_speaking,
                                       RuleSpoken(cat, command, command_lower, ok, tasks))
        /\ UNCHANGED <<use_gtts, listening, returned, speeches, cause, detected_topic, running>>
        /\ wstate' = loop_after(RuleRaises(cat, command, ok))
        /\ category' = cat
        /\ history' = DequeAppend(history, user)
        /\ appended' = Append(appended, user)
        /\ spoken' = spoken \o RuleSpoken(cat, command, command_lower, ok, tasks)
        /\ calls' = calls \o RuleCalls(cat, command, command_lower, ok)
        /\ tasks' = RuleTasks(cat, command_lower, tasks)
        /\ notes' = RuleNotes(cat, command_lower, notes)
        /\ errors' = IF RuleRaises(cat, command, ok) THEN errors + 1 ELSE errors
        /\ UNCHANGED <<heard, command, smart_calls, handled, current_topic,
                       emotionVars, age, text, sentiment, rewriteVars,
                       learningVars>>

\* what the else of process_command speaks of the result it was returned, with
\* no other phrase for an empty result
result_spoken_as_is(result) == result

\* what the else of process_command speaks of the result it was returned
result_spoken(result) ==
    IF Truthy(result) THEN result
    ELSE "I'm not sure how to help with that. Try asking differently!"

\* process_command(command) reaches its else: generate_smart_response(command),
\* where the generation collaborator returns gen and a write of the learning
\* record ends as outcome
GeneralQuery(gen, outcome) ==
    LET command_lower == Lower(command)
        cat == Category(command_lower)
        user == Message("user", command, age)
        arrived == DequeAppend(history, user)
        improved_query == improve_query_understanding(command, arrived, current_topic)
        stored == UserTurn(command, improved_query, age)
        topic == update_topic(current_topic, command)
        user_sentiment == analyze_sentiment(command)
        count == interaction_count + 1
        rap == NextRapport(rapport)
        m == NextMood(user_sentiment, rap)
    IN  /\ running
        /\ wstate = "COMMAND_EXTRACTED"
        /\ cat = "general"
        /\ stop_speaking' = FALSE
        /\ detected_topic' = detect_topic(command)
        /\ UNCHANGED <<use_gtts, listening, returned, speeches, cause, running>>
        /\ wstate' = loop_after(Truthy(gen) /\ learn_raises(learning_data))
        /\ category' = cat
        /\ smart_calls' = smart_calls + 1
        /\ improved' = improved_query
        /\ current_topic' = topic
        /\ text' = command
        /\ sentiment' = user_sentiment
        /\ interaction_count' = count
        /\ successful_helps' = successful_helps + 1
        /\ satisfaction' = NextSatisfaction(satisfaction, TRUE)
        /\ rapport' = rap
        /\ mood' = m
        /\ energy' = NextEnergy(energy, age)
        /\ updated' = [sentiment |-> user_sentiment, success |-> TRUE]
        /\ calls' = calls \o <<Call("get_context_summary", "", TRUE),
                               Call("generate_smart_response", command, Truthy(gen)),
                               Call("generate_response", improved_query, Truthy(gen))>>
        /\ IF Truthy(gen)
           THEN \E response \in smart_responses(gen, user_sentiment, m, count, rap) :
                  LET assistant == Message("assistant", response, age)
                      raises == learn_raises(learning_data)
                      record == learn_from_query(learning_data, command, response,
                                                 topic, CurrentHour(age))
                      saves == ~raises /\ should_save(record)
                  IN  /\ saves \/ outcome = "written"
                      /\ history' = DequeAppend(DequeAppend(arrived, stored), assistant)
                      /\ appended' = appended \o <<user, stored, assistant>>
                      /\ learned' = learned + 1
                      /\ learning_data' = IF raises THEN learning_data ELSE record
                      /\ storage' = IF saves
                                    THEN save_learning_data(storage, record, outcome)
                                    ELSE storage
                      /\ writes' = IF saves THEN writes + 1 ELSE writes
                      /\ log' = IF saves THEN log \o save_events(outcome) ELSE log
                      /\ errors' = IF raises THEN errors + 1 ELSE errors
                      /\ spoken' = spoken \o
                            (IF raises THEN <<"Let me think about that">>
                             ELSE <<"Let me think about that", result_spoken(response)>>)
           ELSE /\ outcome = "written"
                /\ history' = DequeAppend(arrived, stored)
                /\ appended' = appended \o <<user, stored>>
                /\ spoken' = spoken \o
                      <<"Let me think about that", result_spoken(gen)>>
                /\ UNCHANGED <<errors, learningVars>>
        /\ UNCHANGED <<heard, command, handled, tasks, notes, age, rewritten, loaded>>

\* the wall clock advances by h hours
Tick(h) ==
    /\ age + h * SecondsPerHour <= MaxAgeHours * SecondsPerHour
    /\ age' = age + h * SecondsPerHour
    /\ UNCHANGED <<voiceVars, detected_topic, running, serviceVars, history, appended, current_topic, emotionVars,
                   text, sentiment, rewriteVars, learningVars>>

Next ==
    \/ \E has_name \in BOOLEAN, name_response \in NameResponses :
          Start(has_name, name_response)
    \/ \E t \in IdleUtterances : \E why \in ListenCauses(t) : ListenIdle(t, why)
    \/ \E c \in CommandUtterances : \E why \in ListenCauses(c) :
          ListenCommand(c, why)
    \/ \E ok \in BOOLEAN : RuleCommand(ok)
    \/ \E gen \in GenerationResults, outcome \in SaveOutcomes : GeneralQuery(gen, outcome)

Spec == Init /\ [][Next]_vars

-----------------------------------------------------------------------------
(* The conversation store alone *)

Roles == {"user", "assistant"}

Contents == {"ok"}

\* conversation.add_message(role, content)
AddMessage(role, content) ==
    /\ Len(appended) < MaxAppends
    /\ history' = add_message(history, role, content, age)
    /\ appended' = Append(appended, Message(role, content, age))
    /\ UNCHANGED <<voiceVars, detected_topic, running, serviceVars, current_topic, emotionVars, age, text, sentiment,
                   rewriteVars, learningVars>>

NextHistory == \E role \in Roles, content \in Contents : AddMessage(role, content)

SpecHistory == Init /\ [][NextHistory]_vars

-----------------------------------------------------------------------------
(* The sentiment classifier alone *)

SentimentVocabulary == {"good", "great", "bad", "help", "urgent", "helpful",
                        "Thanks", "ok", "not", "working"}

RECURSIVE Phrases(_)
\* the texts of one to n words of the vocabulary
Phrases(n) ==
    IF n <= 1 THEN SentimentVocabulary
    ELSE Phrases(n - 1) \cup
         {p \o " " \o w : p \in Phrases(n - 1), w \in SentimentVocabulary}

SentimentSamples == {"this is urgent, please help", "thanks, that's great",
                     "it's broken and not working", "ok", "ASAP this is great"}

SentimentTexts == Phrases(MaxWords) \cup SentimentSamples

InitSentiment ==
    /\ Init!1 /\ Init!2 /\ Init!3 /\ Init!4 /\ Init!5 /\ Init!6 /\ Init!7
    /\ Init!8 /\ Init!9 /\ Init!10 /\ Init!11 /\ Init!12 /\ Init!13 /\ Init!14
    /\ Init!15 /\ Init!16 /\ Init!17 /\ Init!18
    /\ text \in SentimentTexts
    /\ Init!20 /\ Init!21 /\ Init!22 /\ Init!23 /\ Init!24
    /\ Init!25 /\ Init!26 /\ Init!27 /\ Init!28 /\ Init!29 /\ Init!30
    /\ Init!31 /\ Init!32 /\ Init!33 /\ Init!34 /\ Init!35 /\ Init!36
    /\ Init!37 /\ Init!38 /\ Init!39 /\ Init!40

\* sentiment = analyze_sentiment(text)
Classify ==
    /\ sentiment = "none"
    /\ sentiment' = analyze_sentiment(text)
    /\ UNCHANGED <<voiceVars, detected_topic, running, serviceVars, history, appended, current_topic, emotionVars,
                   age, text, rewriteVars, learningVars>>

NextSentiment == Classify

SpecSentiment == InitSentiment /\ [][NextSentiment]_vars

-----------------------------------------------------------------------------
(* The query rewriter alone *)

\* a query of more than 100 characters that holds a pronoun
LongPronounQuery ==
    "explain it to me once more please because the first answer was far too short and left out the details of the matter entirely"

\* a query of more than 150 characters that begins with a follow-up starter
LongFollowUpQuery ==
    "why does the build take so long when nothing changed since yesterday evening and the cache is warm and the machine is idle and the network is up and the disk has space left"

\* the queries given to improve_query_understanding
RewriteQueries ==
    {"what is python", "fix it", "what is it?", "Is THIS better or worse",
     "why is it better or worse", "why python", "and then", "android phones",
     "python vs java", "hello world", "how to cook rice", "how do I cook rice",
     "show me how to cook", "tell me more about them", "What about java",
     LongPronounQuery, LongFollowUpQuery}

\* the topics the session may hold when a query arrives
RewriteTopics == {NoText} \cup {topics[i].topic : i \in 1..Len(topics)}

\* the sessions a query may arrive in: none before it, or an exchange before it
RewriteHistories ==
    {<<>>,
     <<Message("user", "what is python", 0), Message("user", "what is python", 0),
       Message("assistant", "Python is a language", 0)>>}

\* process_command has stored the query (line 107) when
\* generate_smart_response rewrites it
InitRewrite ==
    /\ Init!1 /\ Init!2
    /\ command \in RewriteQueries
    /\ Init!4 /\ Init!5 /\ Init!6 /\ Init!7 /\ Init!8
    /\ \E prior \in RewriteHistories :
          /\ history = DequeAppend(prior, Message("user", command, 0))
          /\ appended = Append(prior, Message("user", command, 0))
    /\ current_topic \in RewriteTopics
    /\ Init!12 /\ Init!13 /\ Init!14 /\ Init!15 /\ Init!16 /\ Init!17 /\ Init!18
    /\ Init!19 /\ Init!20 /\ Init!21 /\ Init!22 /\ Init!23 /\ Init!24
    /\ Init!25 /\ Init!26 /\ Init!27 /\ Init!28 /\ Init!29 /\ Init!30
    /\ Init!31 /\ Init!32 /\ Init!33 /\ Init!34 /\ Init!35 /\ Init!36
    /\ Init!37 /\ Init!38 /\ Init!39 /\ Init!40

\* improved_query = improve_query_understanding(query)
Rewrite ==
    /\ improved = NoText
    /\ improved' = improve_query_understanding(command, history, current_topic)
    /\ UNCHANGED <<voiceVars, detected_topic, running, serviceVars, history, appended, current_topic, emotionVars,
                   age, text, sentiment, rewritten, learningVars>>

\* improve_query_understanding on a query it has rewritten
RewriteAgain ==
    /\ improved # NoText
    /\ rewritten = NoText
    /\ rewritten' = improve_query_understanding(improved, history, current_topic)
    /\ UNCHANGED <<voiceVars, detected_topic, running, serviceVars, history, appended, current_topic, emotionVars,
                   age, text, sentiment, improved, learningVars>>

NextRewrite == Rewrite \/ RewriteAgain

SpecRewrite == InitRewrite /\ [][NextRewrite]_vars

-----------------------------------------------------------------------------
(* The learning store alone *)

\* a record of four queries, as a session before this one may have written it
FourQueries ==
    [wellformed |-> TRUE,
     common_queries |->
        <<[query |-> "what is rust", count |-> 2, topic |-> "research",
           last_response_length |-> 20],
          [query |-> "hello world", count |-> 1, topic |-> NoText,
           last_response_length |-> 12],
          [query |-> "python vs java", count |-> 1, topic |-> "coding",
           last_response_length |-> 30],
          [query |-> "good morning", count |-> 3, topic |-> NoText,
           last_response_length |-> 8]>>,
     user_patterns |->
        <<[period |-> "morning", topic |-> "research", count |-> 2],
          [period |-> "morning", topic |-> "general", count |-> 4],
          [period |-> "evening", topic |-> "coding", count |-> 1]>>]

\* what ai_learning.json may hold when the assistant starts
StorageContents ==
    {MissingFile, UnreadableFile, MalformedFile, JsonFile(EmptyObject),
     JsonFile(DefaultRecord), JsonFile(FourQueries)}

\* the queries and responses given to _learn_from_query
LearnQueries == {"what is python", "What is Python", "tell me a joke"}

LearnResponses == {"Python is a language"}

LearnTopics == {NoText, "coding"}

LearnHours == {9, 13, 20}

\* the assistant is about to be constructed
InitLearning ==
    /\ Init!1 /\ Init!2 /\ Init!3 /\ Init!4 /\ Init!5 /\ Init!6 /\ Init!7
    /\ Init!8 /\ Init!9 /\ Init!10
    /\ current_topic \in LearnTopics
    /\ Init!12 /\ Init!13 /\ Init!14 /\ Init!15 /\ Init!16 /\ Init!17 /\ Init!18
    /\ Init!19 /\ Init!20 /\ Init!21 /\ Init!22 /\ Init!23 /\ Init!24
    /\ Init!25 /\ Init!26
    /\ learning_data = EmptyObject
    /\ storage \in StorageContents
    /\ loaded = FALSE
    /\ Init!30 /\ Init!31
    /\ log = <<>>
    /\ Init!33 /\ Init!34 /\ Init!35 /\ Init!36 /\ Init!37 /\ Init!38 /\ Init!39 /\ Init!40

\* AdvancedAI.__init__: self.learning_data = self._load_learning_data()
Load ==
    /\ ~loaded
    /\ loaded' = TRUE
    /\ learning_data' = load_learning_data(storage)
    /\ log' = log \o load_events(storage)
    /\ UNCHANGED <<voiceVars, detected_topic, running, serviceVars, history, appended, current_topic, emotionVars,
                   age, text, sentiment, rewriteVars, storage, learned, writes>>

\* _learn_from_query(query, response) at the hour current_hour, where a write of
\* the record ends as outcome; an exception it raises reaches the except clause
\* of listen_for_wake_word
LearnStep(query, response, current_hour, outcome) ==
    LET raises == learn_raises(learning_data)
        record == learn_from_query(learning_data, query, response, current_topic,
                                   current_hour)
        saves == ~raises /\ should_save(record)
    IN  /\ loaded
        /\ saves \/ outcome = "written"
        /\ learned' = learned + 1
        /\ learning_data' = IF raises THEN learning_data ELSE record
        /\ storage' = IF saves THEN save_learning_data(storage, record, outcome)
                      ELSE storage
        /\ writes' = IF saves THEN writes + 1 ELSE writes
        /\ log' = IF saves THEN log \o save_events(outcome) ELSE log
        /\ errors' = IF raises THEN errors + 1 ELSE errors
        /\ UNCHANGED <<voiceVars, detected_topic, running,
                       wstate, heard, command, category, spoken, calls, smart_calls,
                       handled, tasks, notes, history, appended, current_topic,
                       emotionVars, age, text, sentiment, rewriteVars, loaded>>

\* one call of _learn_from_query among the MaxLearns calls of a run
Learn(query, response, current_hour, outcome) ==
    /\ learned < MaxLearns
    /\ LearnStep(query, response, current_hour, outcome)

NextLearning ==
    \/ Load
    \/ \E query \in LearnQueries, response \in LearnResponses,
          current_hour \in LearnHours, outcome \in SaveOutcomes :
            Learn(query, response, current_hour, outcome)

SpecLearning == InitLearning /\ [][NextLearning]_vars

(* ---- the writes of ai_learning.json over a batch of new queries ---- *)

\* ai_learning.json holds a record and open(.., 'r') raises
UnreadableRecord == [kind |-> "unreadable", data |-> FourQueries]

\* what ai_learning.json may hold when the assistant starts
FlushStorage ==
    {MissingFile, UnreadableRecord, JsonFile(DefaultRecord), JsonFile(FourQueries)}

\* the queries given to _learn_from_query: BatchSize different ones
FlushQueries == {"what is python", "tell me a joke", "open source news",
                 "weather tomorrow", "who are you"}

FlushHours == {9}

InitFlush ==
    /\ Init!1 /\ Init!2 /\ Init!3 /\ Init!4 /\ Init!5 /\ Init!6 /\ Init!7
    /\ Init!8 /\ Init!9 /\ Init!10 /\ Init!11
    /\ Init!12 /\ Init!13 /\ Init!14 /\ Init!15 /\ Init!16 /\ Init!17 /\ Init!18
    /\ Init!19 /\ Init!20 /\ Init!21 /\ Init!22 /\ Init!23 /\ Init!24
    /\ Init!25 /\ Init!26
    /\ learning_data = EmptyObject
    /\ storage \in FlushStorage
    /\ loaded = FALSE
    /\ Init!30 /\ Init!31
    /\ log = <<>>
    /\ Init!33 /\ Init!34 /\ Init!35 /\ Init!36 /\ Init!37 /\ Init!38 /\ Init!39 /\ Init!40

\* one call of _learn_from_query among the MaxFlushLearns calls of a run
FlushLearn(query, response, current_hour, outcome) ==
    /\ learned < MaxFlushLearns
    /\ LearnStep(query, response, current_hour, outcome)

NextFlush ==
    \/ Load
    \/ \E query \in FlushQueries, response \in LearnResponses,
          current_hour \in FlushHours, outcome \in SaveOutcomes :
            FlushLearn(query, response, current_hour, outcome)

SpecFlush == InitFlush /\ [][NextFlush]_vars

-----------------------------------------------------------------------------
(* The sentiment classifier in sessions that differ *)

\* the history after one general query was answered
AnsweredOnce(query, response) ==
    LET user == Message("user", query, 0)
        arrived == DequeAppend(<<>>, user)
        stored == UserTurn(query, improve_query_understanding(query, arrived, NoText), 0)
    IN  DequeAppend(DequeAppend(arrived, stored), Message("assistant", response, 0))

\* a session as constructed, a session after one negative query was answered
\* with a record on file, and a session after one positive query
ClassifySessions ==
    {[history |-> <<>>, topic |-> NoText, count |-> 0, mood |-> "enthusiastic",
      satisfaction |-> SatisfactionInit, rapport |-> RapportInit,
      learning_data |-> DefaultRecord, storage |-> MissingFile],
     [history |-> AnsweredOnce("python is broken", "Let's fix it"),
      topic |-> update_topic(NoText, "python is broken"), count |-> 1,
      mood |-> NextMood("negative", NextRapport(RapportInit)),
      satisfaction |-> NextSatisfaction(SatisfactionInit, TRUE),
      rapport |-> NextRapport(RapportInit),
      learning_data |-> load_learning_data(JsonFile(FourQueries)),
      storage |-> JsonFile(FourQueries)],
     [history |-> AnsweredOnce("thanks for the note", "Glad I could help!"),
      topic |-> update_topic(NoText, "thanks for the note"), count |-> 1,
      mood |-> NextMood("positive", NextRapport(RapportInit)),
      satisfaction |-> NextSatisfaction(SatisfactionInit, TRUE),
      rapport |-> NextRapport(RapportInit),
      learning_data |-> DefaultRecord, storage |-> MissingFile]}

\* the texts given to analyze_sentiment
ClassifyTexts == Phrases(2) \cup SentimentSamples

InitClassify ==
    /\ Init!1 /\ Init!2 /\ Init!3 /\ Init!4 /\ Init!5 /\ Init!6 /\ Init!7
    /\ Init!8
    /\ \E s \in ClassifySessions :
          /\ history = s.history
          /\ appended = s.history
          /\ current_topic = s.topic
          /\ interaction_count = s.count
          /\ successful_helps = s.count
          /\ mood = s.mood
          /\ satisfaction = s.satisfaction
          /\ rapport = s.rapport
          /\ learning_data = s.learning_data
          /\ storage = s.storage
    /\ Init!15 /\ Init!18
    /\ text \in ClassifyTexts
    /\ Init!20 /\ Init!21 /\ Init!22 /\ Init!23 /\ Init!24 /\ Init!25 /\ Init!26
    /\ Init!29 /\ Init!30 /\ Init!31 /\ Init!32 /\ Init!33 /\ Init!34 /\ Init!35
    /\ Init!36 /\ Init!37 /\ Init!38 /\ Init!39 /\ Init!40

NextClassify == Classify

SpecClassify == InitClassify /\ [][NextClassify]_vars

-----------------------------------------------------------------------------
(* The emotional state alone *)

Sentiments == {"positive", "negative", "neutral", "urgent"}

\* _update_emotional_state(user_sentiment, interaction_success)
UpdateEmotionalState(user_sentiment, interaction_success) ==
    /\ interaction_count < MaxUpdates
    /\ interaction_count' = interaction_count + 1
    /\ successful_helps' = IF interaction_success THEN successful_helps + 1
                           ELSE successful_helps
    /\ satisfaction' = NextSatisfaction(satisfaction, interaction_success)
    /\ rapport' = NextRapport(rapport)
    /\ mood' = NextMood(user_sentiment, NextRapport(rapport))
    /\ energy' = NextEnergy(energy, age)
    /\ updated' = [sentiment |-> user_sentiment, success |-> interaction_success]
    /\ UNCHANGED <<voiceVars, detected_topic, running, serviceVars, history, appended, current_topic, age, text,
                   sentiment, rewriteVars, learningVars>>

NextEmotion ==
    \/ \E s \in Sentiments, ok \in BOOLEAN : UpdateEmotionalState(s, ok)
    \/ \E h \in TickHours : Tick(h)

SpecEmotion == Init /\ [][NextEmotion]_vars

-----------------------------------------------------------------------------
(* The service from start to stop, with a learning record on file *)

\* what voice.listen may return in IDLE
ServiceUtterances == {NoText, "zee", "zee type hello", "zee what is python"}

\* what voice.listen may return after "Yes?"
ServiceCommands == {NoText, "type hello", "what is python", "git status"}

\* what ai_learning.json may hold when the service is constructed
ServiceStorage == {MissingFile, JsonFile(EmptyObject), JsonFile(FourQueries)}

InitService ==
    /\ Init!1 /\ Init!2 /\ Init!3 /\ Init!4 /\ Init!5 /\ Init!6 /\ Init!7
    /\ Init!8 /\ Init!9 /\ Init!10 /\ Init!11 /\ Init!12 /\ Init!13 /\ Init!14
    /\ Init!15 /\ Init!16 /\ Init!17 /\ Init!18 /\ Init!19 /\ Init!20 /\ Init!21
    /\ Init!22 /\ Init!23 /\ Init!24 /\ Init!25 /\ Init!26
    /\ storage \in ServiceStorage
    /\ learning_data = load_learning_data(storage)
    /\ Init!29 /\ Init!30 /\ Init!31
    /\ log = load_events(storage)
    /\ Init!33 /\ Init!34 /\ Init!35 /\ Init!36 /\ Init!37 /\ Init!38 /\ Init!39 /\ Init!40

\* signal_handler: service.stop() and sys.exit(0)
Stop ==
    /\ running
    /\ running' = FALSE
    /\ wstate' = "STOPPED"
    /\ UNCHANGED <<heard, command, category, spoken, calls, smart_calls, handled,
                   tasks, notes, errors, history, appended, current_topic,
                   emotionVars, age, text, sentiment, rewriteVars, learningVars,
                   voiceVars, detected_topic>>

ServiceListenIdle ==
    \E t \in ServiceUtterances : \E why \in ListenCauses(t) : ListenIdle(t, why)

ServiceListenCommand ==
    \E c \in ServiceCommands : \E why \in ListenCauses(c) : ListenCommand(c, why)

ServiceRuleCommand == \E ok \in BOOLEAN : RuleCommand(ok)

ServiceGeneralQuery ==
    \E gen \in GenerationResults, outcome \in SaveOutcomes : GeneralQuery(gen, outcome)

NextService ==
    \/ \E has_name \in BOOLEAN, name_response \in NameResponses :
          Start(has_name, name_response)
    \/ ServiceListenIdle
    \/ ServiceListenCommand
    \/ ServiceRuleCommand
    \/ ServiceGeneralQuery
    \/ Stop

\* the step in which the listen after "Yes?" returns: a ServiceListenCommand
AnswerHeard ==
    /\ running
    /\ wstate = "AWAITING_COMMAND"
    /\ wstate' \in {"IDLE", "COMMAND_EXTRACTED"}

\* the step in which process_command returns or raises: a ServiceRuleCommand or
\* a ServiceGeneralQuery
CommandProcessed ==
    /\ running
    /\ wstate = "COMMAND_EXTRACTED"
    /\ wstate' \in {"IDLE", "STOPPED"}

\* the listen after "Yes?" returns within its timeout, and process_command
\* returns or raises: the loop makes one call at a time and waits for it
SpecService ==
    /\ InitService
    /\ [][NextService]_vars
    /\ WF_wstate(AnswerHeard)
    /\ WF_wstate(CommandProcessed)

-----------------------------------------------------------------------------
(* The service with queries that differ in letter case *)

\* what voice.listen may return in IDLE
StoreUtterances == {NoText, "zee", "zee help", "zee what is python"}

\* what voice.listen may return after "Yes?"
StoreCommands == {NoText, "What is Python", "tell me a joke"}

\* what ai_learning.json may hold when the service is constructed
StoreStorage == {MissingFile, JsonFile(FourQueries)}

InitStore ==
    /\ Init!1 /\ Init!2 /\ Init!3 /\ Init!4 /\ Init!5 /\ Init!6 /\ Init!7
    /\ Init!8 /\ Init!9 /\ Init!10 /\ Init!11 /\ Init!12 /\ Init!13 /\ Init!14
    /\ Init!15 /\ Init!16 /\ Init!17 /\ Init!18 /\ Init!19 /\ Init!20 /\ Init!21
    /\ Init!22 /\ Init!23 /\ Init!24 /\ Init!25 /\ Init!26
    /\ storage \in StoreStorage
    /\ learning_data = load_learning_data(storage)
    /\ Init!29 /\ Init!30 /\ Init!31
    /\ log = load_events(storage)
    /\ Init!33 /\ Init!34 /\ Init!35 /\ Init!36 /\ Init!37 /\ Init!38 /\ Init!39 /\ Init!40

NextStore ==
    \/ \E has_name \in BOOLEAN, name_response \in NameResponses :
          Start(has_name, name_response)
    \/ \E t \in StoreUtterances : \E why \in ListenCauses(t) : ListenIdle(t, why)
    \/ \E c \in StoreCommands : \E why \in ListenCauses(c) : ListenCommand(c, why)
    \/ \E ok \in BOOLEAN : RuleCommand(ok)
    \/ \E gen \in GenerationResults, outcome \in SaveOutcomes :
          GeneralQuery(gen, outcome)

SpecStore == InitStore /\ [][NextStore]_vars

-----------------------------------------------------------------------------
(* The service over enough commands to fill the history *)

\* what voice.listen may return in IDLE: a stop command and a general query
FillUtterances == {"zee quiet", "zee what is python"}

\* one listen of the IDLE loop among the MaxHeard of a run
FillListenIdle(t) ==
    /\ handled < MaxHeard
    /\ ListenIdleStep(t, "speech")

\* the commands are processed with no generation model available:
\* generate_response returns None
NextFill ==
    \/ Start(TRUE, NoText)
    \/ \E t \in FillUtterances : FillListenIdle(t)
    \/ RuleCommand(TRUE)
    \/ GeneralQuery(NoText, "written")

SpecFill == Init /\ [][NextFill]_vars

-----------------------------------------------------------------------------
(* The speech output of VoiceHandler alone *)

\* the texts given to speak
SpeechTexts == {"Yes, how can I help?", "Browser opened"}

\* self.tts_engine: pyttsx3 is initialised only where gTTS is not available
tts_engine == ~use_gtts

\* a _speak_sync(text) call that has not run a line yet; cancelled records that
\* stop_speech was called after the call began and before its playback began
Speech(t, async_mode) ==
    [text |-> t, async |-> async_mode, pc |-> "start", cancelled |-> FALSE]

\* the positions of _speak_sync before any sound is played
BeforePlayback == {"start", "check", "generated", "ready", "fallback"}

\* the _speak_sync call has returned
Returned(s) == s.pc \in {"done", "skipped"}

\* the caller is inside a speak(text) that was not asked to return at once
Blocked == \E i \in 1..Len(speeches) : ~speeches[i].async /\ ~Returned(speeches[i])

InitSpeech ==
    /\ Init!1 /\ Init!2 /\ Init!3 /\ Init!4 /\ Init!5 /\ Init!6 /\ Init!7
    /\ Init!8 /\ Init!9 /\ Init!10 /\ Init!11 /\ Init!12 /\ Init!13 /\ Init!14
    /\ Init!15 /\ Init!16 /\ Init!17 /\ Init!18 /\ Init!19 /\ Init!20 /\ Init!21
    /\ Init!22 /\ Init!23 /\ Init!24 /\ Init!25 /\ Init!26 /\ Init!27 /\ Init!28
    /\ Init!29 /\ Init!30 /\ Init!31 /\ Init!32 /\ Init!33
    /\ use_gtts \in BOOLEAN
    /\ Init!35 /\ Init!36 /\ Init!37 /\ Init!38 /\ Init!39 /\ Init!40

speechFrame == <<serviceVars, history, appended, current_topic, emotionVars, age,
                 text, sentiment, rewriteVars, learningVars, use_gtts, listening, returned, cause,
                 detected_topic, running>>

\* VoiceHandler.speak(text, async_mode) up to the call or the start of
\* _speak_sync
Speak(t, async_mode) ==
    /\ Len(speeches) < MaxSpeeches
    /\ ~Blocked
    /\ stop_speaking' = FALSE
    /\ speeches' = Append(speeches, Speech(t, async_mode))
    /\ UNCHANGED speechFrame

\* VoiceHandler.stop_speech
StopSpeech ==
    /\ ~Blocked
    /\ stop_speaking' = TRUE
    /\ speeches' = [i \in 1..Len(speeches) |->
                      IF speeches[i].pc \in BeforePlayback
                      THEN [speeches[i] EXCEPT !.cancelled = TRUE]
                      ELSE speeches[i]]
    /\ UNCHANGED speechFrame

\* the position of a _speak_sync call after its next step; ok tells whether
\* gTTS and the temporary file raise nothing in that step
speak_sync(s, flag, gtts, ok) ==
    CASE s.pc = "start" ->
           IF flag THEN "skipped" ELSE IF gtts THEN "check" ELSE "fallback"
      [] s.pc = "check" ->
           IF flag THEN "skipped" ELSE IF ok THEN "generated" ELSE "fallback"
      [] s.pc = "generated" ->
           IF flag THEN "skipped" ELSE IF ok THEN "ready" ELSE "fallback"
      [] s.pc = "ready" -> IF ~flag THEN "playing" ELSE "done"
      [] s.pc = "fallback" -> IF tts_engine THEN "playing" ELSE "done"
      [] s.pc = "playing" -> "done"
      [] OTHER -> s.pc

\* the thread of speech i, or the caller of a blocking speak, runs _speak_sync
\* up to its next test of stop_speaking or its next call of a player
SpeakStep(i, ok) ==
    /\ i \in 1..Len(speeches)
    /\ ~Returned(speeches[i])
    /\ ok \/ speeches[i].pc \in {"check", "generated"}
    /\ speeches' = [speeches EXCEPT
                      ![i].pc = speak_sync(speeches[i], stop_speaking, use_gtts, ok)]
    /\ UNCHANGED <<stop_speaking, speechFrame>>

NextSpeech ==
    \/ \E t \in SpeechTexts, async_mode \in BOOLEAN : Speak(t, async_mode)
    \/ StopSpeech
    \/ \E i \in 1..MaxSpeeches, ok \in BOOLEAN : SpeakStep(i, ok)

SpecSpeech == InitSpeech /\ [][NextSpeech]_vars

-----------------------------------------------------------------------------

(* The topic of the conversation alone *)

\* the texts given to update_topic and add_message
TopicTexts == {"hello there", "fix the Python error", "type the code",
               "code to type", "what is the deadline", "open my todo note"}

\* conversation.update_topic(t)
UpdateTopic(t) ==
    /\ text' = t
    /\ detected_topic' = detect_topic(t)
    /\ current_topic' = update_topic(current_topic, t)
    /\ UNCHANGED <<serviceVars, history, appended, emotionVars, age, sentiment,
                   rewriteVars, learningVars, voiceVars, running>>

\* conversation.add_message("user", t)
TopicMessage(t) ==
    /\ Len(appended) < MaxTopicTurns
    /\ history' = add_message(history, "user", t, age)
    /\ appended' = Append(appended, Message("user", t, age))
    /\ UNCHANGED <<serviceVars, current_topic, emotionVars, age, text, sentiment,
                   rewriteVars, learningVars, voiceVars, detected_topic, running>>

\* the deque after conversation_history.clear()
clear(h) == <<>>

\* conversation.clear_context()
ClearContext ==
    /\ history' = clear(history)
    /\ current_topic' = NoText
    /\ UNCHANGED <<serviceVars, appended, emotionVars, age, text, sentiment,
                   rewriteVars, learningVars, voiceVars, detected_topic, running>>

NextTopic ==
    \/ \E t \in TopicTexts : UpdateTopic(t)
    \/ \E t \in TopicTexts : TopicMessage(t)
    \/ ClearContext

SpecTopic == Init /\ [][NextTopic]_vars

-----------------------------------------------------------------------------

(* AIAssistant.process_command and VoiceHandler.continuous_listen (src/main.py) *)

RECURSIVE AfterFirst(_, _)
\* s.split(sep, 1)[1], for a sep that occurs in s
AfterFirst(s, sep) ==
    IF Len(s) < Len(sep) THEN ""
    ELSE IF SubSeq(s, 1, Len(sep)) = sep THEN SubSeq(s, Len(sep) + 1, Len(s))
    ELSE AfterFirst(SubSeq(s, 2, Len(s)), sep)

RECURSIVE SplitWords(_, _)
\* s.split(): the words of s between spaces; word is the word being read
SplitWords(s, word) ==
    IF Len(s) = 0 THEN (IF word = "" THEN <<>> ELSE <<word>>)
    ELSE IF SubSeq(s, 1, 1) = " "
         THEN (IF word = "" THEN <<>> ELSE <<word>>)
                  \o SplitWords(SubSeq(s, 2, Len(s)), "")
         ELSE SplitWords(SubSeq(s, 2, Len(s)), word \o SubSeq(s, 1, 1))

\* str.isdigit() on the decimal digits
IsDigit(w) ==
    /\ Len(w) > 0
    /\ \A i \in 1..Len(w) :
          SubSeq(w, i, i) \in {"0", "1", "2", "3", "4", "5", "6", "7", "8", "9"}

RECURSIVE IntText(_)
\* str(int(w)) for a w of digits: leading zeros go
IntText(w) ==
    IF Len(w) > 1 /\ SubSeq(w, 1, 1) = "0" THEN IntText(SubSeq(w, 2, Len(w))) ELSE w

exit_words == <<"exit", "quit", "goodbye", "stop">>

assistant_research_words == <<"research", "search", "find", "look up", "tell me about">>

topic_phrases == <<"research", "search for", "find", "look up", "tell me about">>

\* the branch of AIAssistant.process_command that a lowered command takes
AssistantCategory(command_lower) ==
    IF AnyIn(Range(exit_words), command_lower) THEN "exit"
    ELSE IF Contains(command_lower, "open") THEN "open"
    ELSE IF Contains(command_lower, "volume") THEN "volume"
    ELSE IF Contains(command_lower, "wifi") \/ Contains(command_lower, "wi-fi")
         THEN "wifi"
    ELSE IF Contains(command_lower, "brightness") THEN "brightness"
    ELSE IF Contains(command_lower, "system") /\ Contains(command_lower, "info")
         THEN "system_info"
    ELSE IF Contains(command_lower, "type") \/ Contains(command_lower, "write")
         THEN "typing"
    ELSE IF Contains(command_lower, "dictate") \/ Contains(command_lower, "transcribe")
         THEN "dictate"
    ELSE IF AnyIn(Range(assistant_research_words), command_lower) THEN "research"
    ELSE IF Contains(command_lower, "switch window")
            \/ Contains(command_lower, "next window") THEN "switch_window"
    ELSE IF Contains(command_lower, "minimize") THEN "minimize"
    ELSE IF Contains(command_lower, "maximize") THEN "maximize"
    ELSE IF Contains(command_lower, "screenshot")
            \/ Contains(command_lower, "screen shot") THEN "screenshot"
    ELSE IF Contains(command_lower, "help")
            \/ Contains(command_lower, "what can you do") THEN "help"
    ELSE "unknown"

\* how the collaborator a branch calls may end: with its full result, with its
\* failure value, or (research) with results and no explanation
CollaboratorOutcomes == {"ok", "failed", "partial"}

\* the text of the system-info branch for one reading of psutil
SystemInfoText == "CPU usage is 12 percent. Memory usage is 40 percent. "

ResearchExplanation == "An explanation in simple terms"

FirstResultText == "Here's what I found: A title. A snippet"

ScreenshotFile == "screenshot_1.png"

AssistantHelpText == "I can help you with: Opening applications. Just ask me naturally!"

\* words of the brightness command that give a level
BrightnessLevels(command_lower) ==
    LET words == SplitWords(command_lower, "")
    IN  {i \in 1..Len(words) :
            \/ IsDigit(words[i])
            \/ /\ Len(words[i]) > 1
               /\ SubSeq(words[i], Len(words[i]), Len(words[i])) = "%"
               /\ IsDigit(SubSeq(words[i], 1, Len(words[i]) - 1))}

\* the topic the research branch extracts
AssistantTopic(command_lower) ==
    LET hits == {i \in 1..Len(topic_phrases) : Contains(command_lower, topic_phrases[i])}
    IN  IF hits = {} THEN command_lower
        ELSE Strip(AfterFirst(command_lower,
                              topic_phrases[CHOOSE i \in hits : \A j \in hits : i <= j]))

\* get_system_info returned {} and info['cpu_percent'] raises KeyError
AssistantRaises(cat, outcome) == cat = "system_info" /\ outcome = "failed"

\* what the branch cat speaks, in order; said is what the listen of the typing
\* branch returns
AssistantSpoken(cat, command_lower, outcome, said) ==
    CASE cat = "exit" -> <<"Goodbye!">>
      [] cat = "open" ->
            IF Contains(command_lower, "browser") \/ Contains(command_lower, "chrome")
            THEN <<"Opening browser">>
            ELSE IF Contains(command_lower, "google") THEN <<"Opening Google">>
            ELSE IF Contains(command_lower, "chatgpt")
                    \/ Contains(command_lower, "chat gpt") THEN <<"Opening ChatGPT">>
            ELSE IF outcome # "failed"
                 THEN <<"Opening " \o Strip(Remove(command_lower, "open"))>>
                 ELSE <<"Could not open " \o Strip(Remove(command_lower, "open"))>>
      [] cat = "volume" ->
            IF Contains(command_lower, "up") \/ Contains(command_lower, "increase")
            THEN <<"Volume increased">>
            ELSE IF Contains(command_lower, "down") \/ Contains(command_lower, "decrease")
            THEN <<"Volume decreased">>
            ELSE IF Contains(command_lower, "mute") THEN <<"Volume muted">>
            ELSE <<>>
      [] cat = "wifi" ->
            IF Contains(command_lower, "on") \/ Contains(command_lower, "enable")
            THEN <<"Turning WiFi on">>
            ELSE IF Contains(command_lower, "off") \/ Contains(command_lower, "disable")
            THEN <<"Turning WiFi off">>
            ELSE <<>>
      [] cat = "brightness" ->
            LET words == SplitWords(command_lower, "")
                levels == BrightnessLevels(command_lower)
            IN  IF levels = {} THEN <<>>
                ELSE <<"Setting brightness to "
                         \o IntText(Remove(words[CHOOSE i \in levels :
                                                    \A j \in levels : i <= j], "%"))
                         \o " percent">>
      [] cat = "system_info" ->
            IF outcome = "failed" THEN <<>> ELSE <<SystemInfoText>>
      [] cat = "typing" ->
            <<"What should I type? Start speaking after the beep.",
              IF Truthy(said) THEN "Typing completed"
              ELSE "I didn't hear anything to type">>
      [] cat = "dictate" -> <<"Start dictating. I will type what you say.">>
      [] cat = "research" ->
            IF AssistantTopic(command_lower) = ""
            THEN <<"What would you like me to research?">>
            ELSE <<"Researching " \o AssistantTopic(command_lower)
                       \o ". This may take a moment.",
                   CASE outcome = "ok" -> ResearchExplanation
                     [] outcome = "partial" -> FirstResultText
                     [] OTHER -> "Sorry, I couldn't find any information on that topic">>
      [] cat = "switch_window" -> <<"Switching window">>
      [] cat = "minimize" -> <<"Minimizing window">>
      [] cat = "maximize" -> <<"Maximizing window">>
      [] cat = "screenshot" ->
            IF outcome # "failed" THEN <<"Screenshot saved as " \o ScreenshotFile>>
            ELSE <<"Failed to take screenshot">>
      [] cat = "help" -> <<AssistantHelpText>>
      [] OTHER -> <<"I'm not sure how to help with that. Try saying 'help' to see what I can do.">>

\* what process_command returns, or that it raised
AssistantReturns(cat, outcome) ==
    IF cat = "exit" THEN "False"
    ELSE IF AssistantRaises(cat, outcome) THEN "raised"
    ELSE "True"

\* listens of the wake-word test in a run of the interactive mode
MaxInteractive == 2

\* what voice.listen may return to the wake-word test of continuous_listen
InteractiveUtterances == {NoText, "hello there", "Assistant", "hey assistant"}

\* what voice.listen may return after "Yes, how can I help?"
InteractiveCommands ==
    {NoText, "exit", "please stop the music", "Goodbye", "open notepad",
     "volume up", "wifi", "set brightness to 050%", "system info", "type",
     "search for python", "find", "take a screenshot", "what time is it"}

\* what the listen of the typing branch may return
TypingTexts == {NoText, "hello world"}

\* run_interactive: voice.continuous_listen(command_callback, wake_word="assistant")
ContinuousListen ==
    /\ ~listening
    /\ returned = "none"
    /\ wstate = "IDLE"
    /\ handled = 0
    /\ listening' = TRUE
    /\ UNCHANGED <<serviceVars, stop_speaking, use_gtts, speeches, cause, returned,
                   detected_topic, running, history, appended, current_topic,
                   emotionVars, age, text, sentiment, rewriteVars, learningVars>>

\* the listen of the while loop returns t, or None for the cause why
InteractiveListen(t, why) ==
    /\ listening
    /\ wstate = "IDLE"
    /\ handled < MaxInteractive
    /\ handled' = handled + 1
    /\ heard' = listen(t, why)
    /\ cause' = why
    /\ command' = ""
    /\ category' = "none"
    /\ calls' = <<>>
    /\ IF Truthy(listen(t, why)) /\ Contains(Lower(listen(t, why)), "assistant")
       THEN /\ wstate' = "AWAITING_COMMAND"
            /\ spoken' = <<"Yes, how can I help?">>
            /\ stop_speaking' = FALSE
       ELSE /\ wstate' = "IDLE"
            /\ spoken' = <<>>
            /\ stop_speaking' = stop_speaking
    /\ UNCHANGED <<smart_calls, tasks, notes, errors, use_gtts, speeches,
                   listening, returned, detected_topic, running, history, appended,
                   current_topic, emotionVars, age, text, sentiment, rewriteVars,
                   learningVars>>

\* the listen after the prompt returns c, or None for the cause why, and
\* callback(command) runs: process_command, and stop_listening when it
\* returned False; an exception process_command raises leaves continuous_listen
\* and run_interactive
InteractiveCommand(c, why, outcome, said) ==
    LET cmd == listen(c, why)
        command_lower == Lower(cmd)
        cat == AssistantCategory(command_lower)
        phrases == AssistantSpoken(cat, command_lower, outcome, said)
        result == AssistantReturns(cat, outcome)
    IN  /\ listening
        /\ wstate = "AWAITING_COMMAND"
        /\ cause' = why
        /\ IF Truthy(cmd)
           THEN /\ command' = cmd
                /\ category' = cat
                /\ spoken' = spoken \o phrases
                /\ stop_speaking' = spoke(stop_speaking, phrases)
                /\ calls' = Append(calls, Call("process_command", cmd, result # "raised"))
                /\ returned' = result
                /\ listening' = (result # "False")
                /\ wstate' = IF result = "raised" THEN "STOPPED" ELSE "IDLE"
           ELSE /\ wstate' = "IDLE"
                /\ UNCHANGED <<command, category, spoken, stop_speaking, calls,
                               returned, listening>>
        /\ UNCHANGED <<heard, smart_calls, handled, tasks, notes, errors,
                       use_gtts, speeches, detected_topic, running, history,
                       appended, current_topic, emotionVars, age, text, sentiment,
                       rewriteVars, learningVars>>

\* the test of 'while self.listening' fails and continuous_listen returns
LoopExit ==
    /\ ~listening
    /\ returned = "False"
    /\ wstate = "IDLE"
    /\ wstate' = "STOPPED"
    /\ UNCHANGED <<heard, command, category, spoken, calls, smart_calls, handled,
                   tasks, notes, errors, voiceVars, detected_topic, running,
                   history, appended, current_topic, emotionVars, age, text,
                   sentiment, rewriteVars, learningVars>>

NextInteractive ==
    \/ ContinuousListen
    \/ \E t \in InteractiveUtterances : \E why \in ListenCauses(t) :
          InteractiveListen(t, why)
    \/ \E c \in InteractiveCommands : \E why \in ListenCauses(c) :
          \E outcome \in CollaboratorOutcomes, said \in TypingTexts :
             InteractiveCommand(c, why, outcome, said)
    \/ LoopExit

\* the while loop tests self.listening as soon as the callback has returned
SpecInteractive == Init /\ [][NextInteractive]_vars /\ WF_wstate(LoopExit)

-----------------------------------------------------------------------------
(* Properties of the rule-table dispatch and the wake-word loop: Spec *)

\* the categories of the rule table, in the order the dispatch contract fixes
CategoryOrder == <<"stop_speech", "briefing", "sleep", "open_app", "volume",
                   "research", "help", "typing", "task_add", "task_list",
                   "task_complete", "note", "workspace_status", "git_status">>

\* the places in CategoryOrder of the categories whose keywords the command holds
MatchingCategories(command_lower) ==
    {i \in 1..Len(CategoryOrder) : Matches(CategoryOrder[i], command_lower)}

\* generate_smart_response was called for the command being handled
OrchestratorCalled == \E i \in 1..Len(calls) : calls[i].fn = "generate_smart_response"

\* C1: every command handed to process_command takes the branch of the first
\* category, in the fixed order, whose keywords its lower-cased text holds, and
\* generate_smart_response is called if and only if no category matches.
C1_FirstMatchWins ==
    category # "none" =>
        LET hits == MatchingCategories(Lower(command))
        IN  /\ hits # {} =>
                 category = CategoryOrder[CHOOSE i \in hits : \A j \in hits : i <= j]
            /\ hits = {} => category = "general"
            /\ OrchestratorCalled <=> hits = {}

\* a command that holds keywords of two categories took the branch of the first
C1_Witness ==
    /\ category = "stop_speech"
    /\ Matches("sleep", Lower(command))
    /\ ~OrchestratorCalled

\* C2: a command that matches both the research and the typing category, and no
\* category before research, is dispatched to research and never to typing; the
\* command "search for python tutorials" said after the wake word selects research.
C2_ResearchBeforeTyping ==
    category # "none" =>
        LET command_lower == Lower(command)
        IN  /\ ( /\ Matches("research", command_lower)
                 /\ Matches("typing", command_lower)
                 /\ \A i \in 1..5 : ~Matches(CategoryOrder[i], command_lower) )
               => category = "research"
            /\ Contains(command_lower, "search for python tutorials")
               => category = "research"

C2_Witness ==
    /\ command = "search for python tutorials"
    /\ Matches("typing", Lower(command))
    /\ category = "research"

\* C3: in a fresh session the utterance "Hey ZEE, volume up" heard in IDLE leads
\* to COMMAND_EXTRACTED with the command text exactly "volume up"; the volume
\* category is selected, the volume is increased, a confirmation is spoken and
\* generate_smart_response is never called.
C3_VolumeUpScenario ==
    (handled = 1 /\ heard = "Hey ZEE, volume up") =>
        /\ wstate # "AWAITING_COMMAND"
        /\ wstate = "COMMAND_EXTRACTED" => command = "volume up"
        /\ category # "none" =>
             /\ command = "volume up"
             /\ category = "volume"
             /\ \E i \in 1..Len(calls) :
                  calls[i].fn = "adjust_volume" /\ calls[i].arg = "change=10"
             /\ \E i \in 1..Len(spoken) : spoken[i] = "Volume up"
        /\ ~OrchestratorCalled
        /\ smart_calls = 0

\* the utterance t holds a wake phrase
Woke(t) == Truthy(t) /\ AnyIn(Range(wake_words), Lower(t))

\* what is left of the utterance t once the wake phrase found in it is removed
Remainder(t) ==
    IF Woke(t) THEN CommandPart(Lower(t), WakeWordFound(Lower(t))) ELSE ""

\* C4: the wake-word state machine.  From IDLE an utterance holding a wake phrase
\* goes to COMMAND_EXTRACTED, with the remainder as the command, when the text
\* left after removing the wake phrase is longer than 3 characters, and to
\* AWAITING_COMMAND otherwise; from AWAITING_COMMAND a non-empty utterance becomes
\* the command, while an empty result speaks the "didn't catch that" notice and
\* dispatches nothing; an extracted command is dispatched at once, and every
\* IDLE listen starts from IDLE.
C4_WakeWordMachine ==
    [][ /\ handled' # handled =>
             /\ wstate = "IDLE"
             /\ \E t \in IdleUtterances :
                  /\ heard' = t
                  /\ (Woke(t) /\ Len(Remainder(t)) > 3) =>
                       (wstate' = "COMMAND_EXTRACTED" /\ command' = Remainder(t))
                  /\ (Woke(t) /\ Len(Remainder(t)) <= 3) =>
                       (wstate' = "AWAITING_COMMAND" /\ category' = "none")
                  /\ ~Woke(t) => (wstate' = "IDLE" /\ category' = "none")
        /\ wstate = "AWAITING_COMMAND" =>
             \/ /\ wstate' = "COMMAND_EXTRACTED"
                /\ Truthy(command')
                /\ command' \in CommandUtterances
             \/ /\ wstate' = "IDLE"
                /\ spoken' = Append(spoken, "I didn't catch that.")
                /\ category' = "none"
                /\ appended' = appended
                /\ calls' = calls
        /\ wstate = "COMMAND_EXTRACTED" =>
             /\ wstate' = "IDLE"
             /\ category' # "none"
             /\ appended'[Len(appended) + 1].content = command
      ]_vars

\* a wake phrase with too short a remainder was followed by a command, which was
\* dispatched, and the machine is in IDLE again
C4_Witness ==
    /\ heard = "zee yes"
    /\ wstate = "IDLE"
    /\ category = "help"
    /\ handled = 1

-----------------------------------------------------------------------------
(* Properties of the conversation store: SpecHistory *)

\* the last n elements of a sequence
LastTurns(seq, n) ==
    IF Len(seq) <= n THEN seq ELSE [i \in 1..n |-> seq[Len(seq) - n + i]]

\* C5: after any sequence of add_message calls the history holds at most
\* max_history turns and, once more than max_history turns were appended, exactly
\* the max_history most recently appended ones, in the order they were appended.
C5_BoundedHistory ==
    /\ Len(history) <= max_history
    /\ history = LastTurns(appended, max_history)

C5_Witness ==
    /\ Len(appended) = max_history + 2
    /\ Len(history) = max_history
    /\ history[1] = appended[3]

-----------------------------------------------------------------------------
(* Properties of the sentiment classifier: SpecSentiment *)

RECURSIVE WordsPresent(_, _)
\* how many words of the list the text holds
WordsPresent(words, s) ==
    IF Len(words) = 0 THEN 0
    ELSE (IF Contains(s, Head(words)) THEN 1 ELSE 0) + WordsPresent(Tail(words), s)

RECURSIVE CountOccurrences(_, _)
\* how many times the text holds the word
CountOccurrences(s, w) ==
    IF Len(s) < Len(w) THEN 0
    ELSE (IF SubSeq(s, 1, Len(w)) = w THEN 1 ELSE 0)
         + CountOccurrences(SubSeq(s, 2, Len(s)), w)

RECURSIVE WordOccurrences(_, _)
\* how many occurrences of words of the list the text holds
WordOccurrences(words, s) ==
    IF Len(words) = 0 THEN 0
    ELSE CountOccurrences(s, Head(words)) + WordOccurrences(Tail(words), s)

HasUrgency(s) == \E i \in 1..Len(urgent_words) : Contains(s, urgent_words[i])

\* C6: a text that holds an urgency keyword is classified urgent, whatever the
\* numbers of positive and negative words in it.
C6_UrgentFirst ==
    (sentiment # "none" /\ HasUrgency(Lower(text))) => sentiment = "urgent"

\* an urgent text that also holds a negative word
C6_Witness ==
    /\ text = "this is urgent, please help"
    /\ WordsPresent(negative_words, Lower(text)) > WordsPresent(positive_words, Lower(text))
    /\ sentiment = "urgent"

\* the polarity rule on two counts
PolarityRule(positive_count, negative_count) ==
    /\ sentiment \in {"positive", "negative", "neutral"}
    /\ sentiment = "positive" <=> positive_count > negative_count
    /\ sentiment = "negative" <=> negative_count > positive_count
    /\ sentiment = "neutral" <=> positive_count = negative_count

\* C7 as stated: without an urgency keyword the sentiment follows from the numbers
\* of occurrences, in the lower-cased text, of positive and of negative words.
C7_PolarityByOccurrences ==
    (sentiment # "none" /\ ~HasUrgency(Lower(text))) =>
        PolarityRule(WordOccurrences(positive_words, Lower(text)),
                     WordOccurrences(negative_words, Lower(text)))

\* C7 as amended: without an urgency keyword the sentiment follows from the numbers
\* of positive and of negative words that the lower-cased text holds at least once
\* (a word said twice counts once); exactly one sentiment is returned.
C7_PolarityByWordsPresent ==
    sentiment # "none" =>
        /\ sentiment \in Sentiments
        /\ ~HasUrgency(Lower(text)) =>
             PolarityRule(WordsPresent(positive_words, Lower(text)),
                          WordsPresent(negative_words, Lower(text)))

\* a positive word said twice and one negative word: neutral
C7_Witness ==
    /\ text = "good good bad"
    /\ sentiment = "neutral"

-----------------------------------------------------------------------------
(* Properties of the emotional state: SpecEmotion *)

\* C8: across any sequence of updates rapport never decreases: each update adds
\* 0.02, clamped at 1.0, whatever the sentiment and the success flag.
C8_RapportMonotone ==
    [][ /\ FLeq(rapport, rapport')
        /\ interaction_count' # interaction_count =>
             rapport' = (IF FLess(FloatOne, FAdd(rapport, RapportStep)) THEN FloatOne
                         ELSE FAdd(rapport, RapportStep))
      ]_vars

\* rapport has reached the clamp and one more update has left it there
C8_Witness ==
    /\ rapport = FloatOne
    /\ interaction_count = MaxUpdates
    /\ updated.success = FALSE

\* C9: energy, satisfaction and rapport each lie within [0, 1] in every state.
C9_FieldsInUnitInterval ==
    /\ 0 <= energy /\ energy <= EnergyOne
    /\ FLeq(FloatZero, satisfaction) /\ FLeq(satisfaction, FloatOne)
    /\ FLeq(FloatZero, rapport) /\ FLeq(rapport, FloatOne)

\* all three fields are at an end of their range, late in a long session
C9_Witness ==
    /\ energy = EnergyFloor
    /\ satisfaction = FloatOne
    /\ rapport = FloatOne
    /\ age > SecondsPerDay

\* the mood rule of the emotional state machine
MoodRule(user_sentiment, rap) ==
    CASE user_sentiment \in {"negative", "urgent"} -> "concerned"
      [] user_sentiment = "positive" /\ FLess(PlayfulRapport, rap) -> "playful"
      [] user_sentiment = "positive" /\ ~FLess(PlayfulRapport, rap) -> "enthusiastic"
      [] OTHER -> "focused"

\* C10: after each update the mood is given by that update's sentiment and the
\* rapport as incremented by it, whatever the mood was before.
C10_MoodFromSentiment ==
    interaction_count > 0 => mood = MoodRule(updated.sentiment, rapport)

\* a positive turn at the first rapport above 0.7: ten additions of 0.02 to 0.5
\* give 0.7000000000000002
C10_Witness ==
    /\ mood = "playful"
    /\ updated.sentiment = "positive"
    /\ FLess(PlayfulRapport, rapport)
    /\ interaction_count = 10

-----------------------------------------------------------------------------
(* Properties of the energy level: SpecEmotion *)

\* max(0.5, 1.0 - (age_hours - 2) * 0.1) at a session age of a seconds, and 1.0 up
\* to the 2-hour mark
EnergyAt(a) ==
    IF a <= EnergyGrace THEN EnergyOne
    ELSE IF EnergyOne - (a - EnergyGrace) > EnergyFloor
         THEN EnergyOne - (a - EnergyGrace)
         ELSE EnergyFloor

\* C11: energy is 1.0 while the session age is at most 2 hours; every update
\* leaves it at max(0.5, 1.0 - (age_hours - 2) * 0.1) for the session age of the
\* update, so that, over the updates of one session, for all session ages, it
\* never increases and never falls below 0.5.
C11_EnergyDecay ==
    [][ /\ age' <= EnergyGrace => energy' = EnergyOne
        /\ energy' >= EnergyFloor
        /\ energy' <= energy
        /\ interaction_count' # interaction_count => energy' = EnergyAt(age)
      ]_vars

-----------------------------------------------------------------------------
(* Properties of the query rewriter: SpecRewrite and Spec *)

\* the character of s at position i, and " " outside s
CharAt(s, i) == IF i >= 1 /\ i <= Len(s) THEN SubSeq(s, i, i) ELSE " "

\* w stands in s as a whole word: between spaces or the ends of s
HasWord(s, w) ==
    \E i \in 1..Len(s) :
        /\ i + Len(w) - 1 <= Len(s)
        /\ SubSeq(s, i, i + Len(w) - 1) = w
        /\ CharAt(s, i - 1) = " "
        /\ CharAt(s, i + Len(w)) = " "

\* the triggers of the rewriting rules, read on the lower-cased query
PronounTrigger(q) == \E i \in 1..Len(pronouns) : HasWord(Lower(q), pronouns[i])

FollowUpTrigger(q) ==
    \E i \in 1..Len(followup_starters) :
        /\ Len(followup_starters[i]) <= Len(q)
        /\ SubSeq(Lower(q), 1, Len(followup_starters[i])) = followup_starters[i]

ComparisonTrigger(q) ==
    \E i \in 1..Len(comparison_words), k \in 1..Len(q) :
        /\ k + Len(comparison_words[i]) - 1 <= Len(q)
        /\ SubSeq(Lower(q), k, k + Len(comparison_words[i]) - 1) = comparison_words[i]

HowToTrigger(q) ==
    \E i \in 1..Len(howto_starts) :
        /\ Len(howto_starts[i]) <= Len(q)
        /\ SubSeq(Lower(q), 1, Len(howto_starts[i])) = howto_starts[i]

\* the text of the most recent USER turn of the session
PreviousUserTurn(h) ==
    h[CHOOSE i \in 1..Len(h) :
          h[i].role = "user" /\ \A j \in (i + 1)..Len(h) : h[j].role # "user"].content

\* the annotation the first matching rule appends, "" when no rule matches
RuleAnnotation(q, h, topic) ==
    IF PronounTrigger(q) /\ topic # NoText
    THEN " [Context: discussing " \o topic \o "]"
    ELSE IF PronounTrigger(q) /\ h # <<>>
    THEN " [Previous question: " \o Take(PreviousUserTurn(h), 100) \o "]"
    ELSE IF FollowUpTrigger(q)
    THEN " [Continuing from: " \o Take(h[Len(h)].content, 150) \o "]"
    ELSE IF ComparisonTrigger(q)
    THEN " [Provide clear comparison with pros/cons]"
    ELSE IF HowToTrigger(q)
    THEN " [Provide step-by-step instructions]"
    ELSE ""

\* the number of annotations opened in s
Annotations(s) == Cardinality({i \in 1..Len(s) : SubSeq(s, i, i) = "["})

C13_RewriteLeavesSession ==
    [][ smart_calls' # smart_calls =>
          /\ Len(appended') >= Len(appended) + 2
          /\ SubSeq(appended', 1, Len(appended)) = appended
          /\ \A i \in (Len(appended) + 1)..Len(appended') :
                appended'[i].role = "user" => appended'[i].content = command
          /\ appended'[Len(appended) + 1] = Message("user", command, age)
          /\ appended'[Len(appended) + 2] = Message("user", command, age)
          /\ history' = LastTurns(appended', max_history)
          /\ current_topic' = update_topic(current_topic, command)
      ]_vars

\* a general query was rewritten, and the session holds its raw text only
C13_Witness ==
    /\ category = "general"
    /\ command = "Thanks that is great"
    /\ improved = "Thanks that is great [Context: discussing coding]"
    /\ \E i \in 1..Len(history) : history[i].content = command
    /\ \A i \in 1..Len(history) : history[i].content # improved

\* the query holds no trigger of a rewriting rule
NoTrigger(q) ==
    ~PronounTrigger(q) /\ ~FollowUpTrigger(q) /\ ~ComparisonTrigger(q) /\ ~HowToTrigger(q)

\* C14: in any session a query that holds no pronoun, follow-up starter,
\* comparison keyword or how-to start is returned unchanged, whether it is a
\* raw query or one that was rewritten already, so that rewriting it again
\* gives the same text.
C14_RewriteIdempotent ==
    /\ (improved # NoText /\ NoTrigger(command)) => improved = command
    /\ (rewritten # NoText /\ NoTrigger(improved)) => rewritten = improved

\* a query with no trigger was rewritten twice in a session with a topic and an
\* exchange before it
C14_Witness ==
    /\ command = "what is it?"
    /\ current_topic = "coding"
    /\ Len(history) = 4
    /\ improved = command
    /\ rewritten = command

-----------------------------------------------------------------------------
(* Properties of the response orchestrator: Spec *)

\* the step is a general query the generation collaborator answered with None
GenerationFailed ==
    smart_calls' # smart_calls /\ ~calls'[Len(calls')].ok

\* the phrase spoken when generate_smart_response returns nothing
FallbackPhrase == "I'm not sure how to help with that. Try asking differently!"

\* C15: handling a general query appends exactly one USER turn, holding the raw
\* query, and, when generation succeeds, exactly one ASSISTANT turn after it,
\* holding the final text; no other turn is added.
C15_OneTurnEach ==
    [][ smart_calls' # smart_calls =>
          LET added == SubSeq(appended', Len(appended) + 1, Len(appended'))
          IN  /\ SubSeq(appended', 1, Len(appended)) = appended
              /\ added[1] = Message("user", command, age)
              /\ IF calls'[Len(calls')].ok
                 THEN /\ Len(added) = 2
                      /\ added[2] = Message("assistant", spoken'[Len(spoken')], age)
                 ELSE Len(added) = 1
      ]_vars

\* C16: when the generation collaborator returns None the handling raises
\* nothing, the one fixed fallback phrase is spoken, no ASSISTANT turn is
\* appended and the learning record is neither updated nor written.
C16_GenerationNone ==
    [][ GenerationFailed =>
          /\ errors' = errors
          /\ spoken' = spoken \o <<"Let me think about that", FallbackPhrase>>
          /\ \A i \in (Len(appended) + 1)..Len(appended') :
                appended'[i].role # "assistant"
          /\ history'[Len(history')].role # "assistant"
          /\ learning_data' = learning_data
          /\ learned' = learned
          /\ writes' = writes
          /\ storage' = storage
      ]_vars

\* a general query was handled with no generation result
C16_Witness ==
    /\ category = "general"
    /\ command = "what is python"
    /\ ~calls[Len(calls)].ok
    /\ spoken[Len(spoken)] = FallbackPhrase
    /\ learned = 0
    /\ errors = 0

\* C17: when generation returns no result, or a listen returns no speech, the
\* history, the topic, the emotional state, the interaction counters and the
\* learning record are after the handling what they were before it.
C17_EmptyOutcomeLeavesSession ==
    [][ (\/ GenerationFailed
         \/ (handled' # handled /\ heard' = NoText)
         \/ (wstate = "AWAITING_COMMAND" /\ wstate' = "IDLE")) =>
          /\ history' = history
          /\ current_topic' = current_topic
          /\ mood' = mood
          /\ energy' = energy
          /\ satisfaction' = satisfaction
          /\ rapport' = rapport
          /\ interaction_count' = interaction_count
          /\ successful_helps' = successful_helps
          /\ learning_data' = learning_data
      ]_vars

-----------------------------------------------------------------------------
(* Properties of the learning store: SpecLearning *)

\* the step is the load of the learning record
Loading == ~loaded /\ loaded'

\* the step is a learning update
Learning == learned' # learned

\* C18: loading never fails: a file that is missing, unreadable, malformed or
\* holds no well-formed record yields the empty default record, and every
\* later learning update succeeds.
C18_LoadYieldsRecord ==
    [][ /\ (Loading /\ (storage.kind # "json" \/ ~storage.data.wellformed)) =>
             learning_data' = DefaultRecord
        /\ Loading => learning_data'.wellformed
        /\ Learning => errors' = errors
      ]_vars

\* C19: a load that replaces malformed JSON by the default record emits a log
\* event.
C19_CorruptLoadLogged ==
    [][ (Loading /\ storage.kind = "malformed") =>
          (learning_data' = DefaultRecord /\ Len(log') > Len(log))
      ]_vars

\* C20: after a learning update the record is written if and only if the number
\* of distinct recorded queries is then a multiple of the batch size, and a
\* write happens only when the update brought that number to a batch boundary,
\* so that there are no more writes than boundaries crossed.
C20_WritesAtBoundaries ==
    [][ (Learning /\ errors' = errors) =>
          /\ writes' = writes + 1 <=>
                Len(learning_data'.common_queries) % BatchSize = 0
          /\ writes' \in {writes, writes + 1}
          /\ writes' # writes =>
                Len(learning_data'.common_queries) # Len(learning_data.common_queries)
      ]_vars

(* ---- C21..C23: the writes of the learning record ---- *)

\* the count the record data holds for query, 0 when it holds none
QueryCount(data, query) ==
    IF \E i \in 1..Len(data.common_queries) : data.common_queries[i].query = query
    THEN (CHOOSE e \in Range(data.common_queries) : e.query = query).count
    ELSE 0

\* the count the record data holds for period and topic, 0 when it holds none
PatternCount(data, period, topic) ==
    IF \E i \in 1..Len(data.user_patterns) :
          data.user_patterns[i].period = period /\ data.user_patterns[i].topic = topic
    THEN (CHOOSE e \in Range(data.user_patterns) :
              e.period = period /\ e.topic = topic).count
    ELSE 0

\* every count of the record kept is found, not smaller, in the record got
KeepsCounts(got, kept) ==
    /\ \A i \in 1..Len(kept.common_queries) :
          QueryCount(got, kept.common_queries[i].query) >= kept.common_queries[i].count
    /\ \A i \in 1..Len(kept.user_patterns) :
          PatternCount(got, kept.user_patterns[i].period, kept.user_patterns[i].topic)
              >= kept.user_patterns[i].count

\* a step in which _save_learning_data ran
Flushing == writes' # writes

\* C21: after a write of the record that went through, loading the file gives a
\* record in which every query count and every period/topic count is at least
\* the one the record in memory had, and at least the one the file held before
\* the write.
C21_FlushMerges ==
    [][(Flushing /\ Len(log') = Len(log)) =>
          /\ KeepsCounts(load_learning_data(storage'), learning_data')
          /\ KeepsCounts(load_learning_data(storage'), storage.data)]_vars

\* C22: a write of the record that fails leaves the file as it was, and the file
\* never holds a document that cannot be loaded after a write was attempted.
C22_ReplaceOnSuccess ==
    [][(Flushing /\ Len(log') > Len(log)) =>
          /\ storage' = storage
          /\ storage'.kind # "malformed"]_vars

\* C23: a write of the record that fails prints one line and raises nothing, the
\* record in memory keeps the update of the call, and once a write has failed
\* no call that leaves the number of queries where it was writes again.
C23_FailedFlushSwallowed ==
    [][/\ (Flushing /\ Len(log') > Len(log)) =>
              /\ errors' = errors
              /\ log' = Append(log, "Error saving learning data")
              /\ \E query \in LearnQueries \cup FlushQueries,
                    response \in LearnResponses,
                    current_hour \in LearnHours \cup FlushHours :
                      learning_data' = learn_from_query(learning_data, query,
                                           response, current_topic, current_hour)
       /\ (Learning /\ Len(log) > 0
              /\ Len(learning_data'.common_queries) = Len(learning_data.common_queries))
              => ~Flushing]_vars

-----------------------------------------------------------------------------
(* Properties of the speech output: SpecSpeech *)

\* C24: stop_speech raises nothing whenever it is called, and a speech given to
\* a speak that returns at once, for which stop_speech was called before its
\* playback began, never begins to play afterwards.
C24_CancellationObserved ==
    [][/\ errors' = errors
       /\ \A i \in 1..Len(speeches) :
             (speeches[i].async /\ speeches[i].cancelled /\ speeches'[i].pc = "playing")
                 => speeches[i].pc = "playing"]_vars

-----------------------------------------------------------------------------
(* Properties of the handlers that call a collaborator: Spec *)

\* the last process_command called a collaborator that returned False
CollaboratorFailed == \E i \in 1..Len(calls) : ~calls[i].ok

\* C25: after the open and volume handlers, the last phrase spoken is a failure
\* phrase when the collaborator returned False, and a confirmation only when
\* it returned True.
C25_PhraseBySuccess ==
    (category \in {"open_app", "volume"} /\ Len(calls) > 0) =>
        /\ Len(spoken) > 0
        /\ CollaboratorFailed <=> StartsWith(spoken[Len(spoken)], "Sorry, couldn't")

-----------------------------------------------------------------------------
(* Properties of the listens of the wake-word loop: Spec *)

\* a step in which the listen of the while loop returned
IdleListened == handled' # handled

\* a step in which the listen after "Yes?" returned
CommandListened == wstate = "AWAITING_COMMAND" /\ wstate' # wstate

\* nothing was dispatched and nothing was raised in the step
NothingDispatched ==
    /\ calls' \in {calls, <<>>}
    /\ category' = "none"
    /\ UNCHANGED <<errors, smart_calls, history, appended, current_topic, tasks,
                   notes, emotionVars, learningVars>>

-----------------------------------------------------------------------------
(* Properties of the topic of the conversation: SpecTopic *)

\* the keywords of a topic of the table
KeywordsOf(name) == (CHOOSE e \in Range(topics) : e.topic = name).keywords

\* a keyword of the topic is contained in the lower-cased text
Mentions(t, name) ==
    \E i \in 1..Len(KeywordsOf(name)) : Contains(Lower(t), KeywordsOf(name)[i])

\* the first of coding, research, tasks, system that the text mentions
FirstTopic(t) ==
    IF Mentions(t, "coding") THEN "coding"
    ELSE IF Mentions(t, "research") THEN "research"
    ELSE IF Mentions(t, "tasks") THEN "tasks"
    ELSE IF Mentions(t, "system") THEN "system"
    ELSE NoText

\* the step left the counts, the emotional state and the learning record alone
RestUnchanged ==
    UNCHANGED <<interaction_count, successful_helps, emotionVars, age,
                learningVars, serviceVars, sentiment, rewriteVars>>

\* what update_topic on the text of the step does
UpdateEffect ==
    \E t \in TopicTexts :
        /\ text' = t
        /\ current_topic' = IF FirstTopic(t) # NoText THEN FirstTopic(t)
                            ELSE current_topic
        /\ history' = history
        /\ RestUnchanged

\* what clear_context does
ClearEffect ==
    /\ history' = <<>>
    /\ current_topic' = NoText
    /\ text' = text
    /\ RestUnchanged

\* C27: update_topic sets current_topic to the topic inferred from the text and
\* keeps it for a text that matches no keyword; the topic changes in no other
\* step than an update_topic or a clear_context; and clear_context empties the
\* history and sets the topic to None and changes nothing else.
C27_TopicFrame ==
    [][/\ text' # text => UpdateEffect
       /\ current_topic' # current_topic => (UpdateEffect \/ ClearEffect)
       /\ (Len(history) > 0 /\ Len(history') = 0) => ClearEffect]_vars

\* a topic was set, the context was cleared after a turn, a topic was set again
\* and the last update_topic, on a text with no keyword, kept it
C27_Witness ==
    /\ current_topic = "tasks"
    /\ text = "hello there"
    /\ history = <<>>
    /\ Len(appended) > 0

\* C28: detect_topic returns the first topic, in the order coding, research,
\* tasks, system, that has a keyword contained in the lower-cased text, and
\* None when no topic has one.
C28_FirstTopicInTableOrder ==
    text # "" => detected_topic = FirstTopic(text)

\* a system keyword comes before a coding keyword in the text and the topic is
\* coding
C28_Witness ==
    /\ text = "type the code"
    /\ detected_topic = "coding"

-----------------------------------------------------------------------------
(* Properties of the service from start to stop: SpecService *)

\* C29: whenever the service is running and the loop is past its IDLE listen,
\* waiting for a command or processing one, the loop is later in IDLE again or
\* the service has been stopped, whatever fails in between; and running is
\* cleared by nothing but the stop signal.
C29_BackToIdle ==
    /\ (running /\ wstate # "IDLE") ~> (wstate = "IDLE" \/ ~running)
    /\ [][running /\ ~running' => wstate' = "STOPPED"]_vars

\* an exception was caught by the loop, a write of the learning record failed,
\* and the service is running and in IDLE
C29_Witness ==
    /\ running
    /\ wstate = "IDLE"
    /\ errors > 0
    /\ Len(log) > 0

-----------------------------------------------------------------------------
(* Sentiment classification and the session *)

\* the sentiment the word lists give a text, with nothing else read
TextSentiment(t) ==
    LET s == Lower(t)
        positive_count == WordsPresent(positive_words, s)
        negative_count == WordsPresent(negative_words, s)
    IN  IF HasUrgency(s) THEN "urgent"
        ELSE IF positive_count > negative_count THEN "positive"
        ELSE IF negative_count > positive_count THEN "negative"
        ELSE "neutral"

\* the state of a session that a classification could depend on or disturb
SessionState == <<history, appended, current_topic, emotionVars, learning_data,
                  storage, writes, log>>

\* C30: classifying a text gives the sentiment that the text alone determines,
\* whatever the history, topic, emotional state and learning record of the
\* session are, and leaves the history, the topic, the emotional state and the
\* learning record as they were
C30_ClassifyPure ==
    [][sentiment' # sentiment =>
          /\ sentiment' = TextSentiment(text)
          /\ UNCHANGED <<SessionState, text>>]_vars

\* a positive text classified in a session whose mood is concerned, whose
\* topic is coding and whose learning record holds four queries
C30_Witness ==
    /\ sentiment = "positive"
    /\ text = "thanks, that's great"
    /\ mood = "concerned"
    /\ current_topic = "coding"
    /\ Len(history) > 0
    /\ learning_data = FourQueries

-----------------------------------------------------------------------------
(* Rule-handled commands and the orchestrator's state *)

RuleCategoryNames ==
    {"stop_speech", "briefing", "sleep", "open_app", "volume", "research",
     "help", "typing", "task_add", "task_list", "task_complete", "note",
     "workspace_status", "git_status"}

\* a keyword of some rule-table category is present in the lowered command
RuleKeywordPresent(command_lower) ==
    \E cat \in RuleCategoryNames : Matches(cat, command_lower)

\* what the orchestrator owns: the emotional state, the topic and the learning
\* record with its file
OrchestratorState == <<emotionVars, current_topic, learning_data, storage, writes>>

\* C31: generate_smart_response is called only for a command in which no
\* rule-table keyword is present; a command handled by a rule-table category
\* leaves mood, energy, satisfaction, rapport, interaction_count,
\* successful_helps, current_topic and the learning record unchanged; and those
\* change only in a step that calls generate_smart_response.
C31_RuleCommandsLeaveOrchestrator ==
    [][ /\ smart_calls' # smart_calls =>
              /\ wstate = "COMMAND_EXTRACTED"
              /\ ~RuleKeywordPresent(Lower(command))
        /\ (wstate = "COMMAND_EXTRACTED" /\ category' \in RuleCategoryNames) =>
              /\ UNCHANGED OrchestratorState
              /\ smart_calls' = smart_calls
        /\ OrchestratorState' # OrchestratorState => smart_calls' = smart_calls + 1
      ]_vars

\* a rule-handled command after a general query had moved the emotional state
C31_Witness ==
    /\ wstate = "IDLE"
    /\ category \in RuleCategoryNames
    /\ Len(spoken) > 0
    /\ interaction_count = 1
    /\ mood # "enthusiastic"
    /\ smart_calls = 1

-----------------------------------------------------------------------------
(* The context the rewriter's second rule appends *)

\* the text of the most recent USER turn among the last three turns of h
PriorUserText(h) == last_user_msg(recent_messages(h))

\* the second rule applies to the command: a pronoun is present, no topic is
\* set, and a USER turn was stored before the command arrived
SecondRuleApplies ==
    /\ has_pronoun(Lower(command))
    /\ ~Truthy(current_topic)
    /\ history # <<>>
    /\ Truthy(PriorUserText(history))

\* C32: when the second rule of the rewriter applies to a general query, the
\* context appended to the query is the text, truncated, of the most recent USER
\* turn stored before the current utterance arrived, never the text of the
\* current utterance itself.
C32_PriorTurnAsContext ==
    [][ (smart_calls' # smart_calls /\ SecondRuleApplies) =>
            improved' = command \o " [Previous question: "
                                \o Take(PriorUserText(history), 100) \o "]"
      ]_vars

-----------------------------------------------------------------------------
(* Properties of the learning store in the service: SpecStore *)

\* the entries of the record data whose key is q
EntriesOf(data, q) ==
    {i \in 1..Len(data.common_queries) : data.common_queries[i].query = q}

\* the count recorded for q, 0 when q has no entry
CountOf(data, q) ==
    IF EntriesOf(data, q) = {} THEN 0
    ELSE data.common_queries[CHOOSE i \in EntriesOf(data, q) : TRUE].count

\* the keys of the record data
KeysOf(data) == {data.common_queries[i].query : i \in 1..Len(data.common_queries)}

\* the step stored an ASSISTANT turn as the last turn of the history
AssistantTurnAppended ==
    /\ Len(appended') > Len(appended)
    /\ appended'[Len(appended')].role = "assistant"

\* every key of the record is in lower case and has one entry
KeysNormalized ==
    \A i \in 1..Len(learning_data.common_queries) :
        /\ learning_data.common_queries[i].query
              = Lower(learning_data.common_queries[i].query)
        /\ EntriesOf(learning_data, learning_data.common_queries[i].query) = {i}

-----------------------------------------------------------------------------
(* Properties of the moods reached: SpecEmotion *)

\* the moods _update_emotional_state assigns, and the initial one
AssignedMoods == {"enthusiastic", "focused", "playful", "concerned"}

\* C34: in every reachable state the mood is one of enthusiastic, focused,
\* playful and concerned, never supportive; the mood is playful only when rapport
\* is above 0.7, which ten updates of a session that starts at rapport 0.5 reach:
\* ten binary64 additions of 0.02 give 0.7000000000000002, so playful is
\* reachable at the tenth turn and not before it.
C34_MoodsReached ==
    /\ mood \in AssignedMoods
    /\ mood = "playful" =>
          /\ FLess(PlayfulRapport, rapport)
          /\ interaction_count >= 10

\* the tenth update of a session, by a positive user and counted as no help
C34_Witness ==
    /\ mood = "playful"
    /\ interaction_count = 10
    /\ successful_helps = 0
    /\ ~FLeq(rapport, PlayfulRapport)

\* the statement with playful out of reach within the first ten turns
C34_PlayfulAfterTenTurns ==
    /\ mood \in AssignedMoods
    /\ mood = "playful" =>
          /\ FLess(PlayfulRapport, rapport)
          /\ interaction_count > 10

-----------------------------------------------------------------------------
(* Properties of shadowed keywords of the rule table: Spec *)

\* C35: every dispatched command that contains 'stop', 'stop listening'
\* included, takes the stop-speech branch; the sleep branch is taken only by a
\* command that contains 'sleep' or 'goodbye' and no stop-speech keyword; and
\* the typing branch is taken only by a command that contains 'type', 'write'
\* or 'enter' and not 'search', so that 'search for' never selects it.
C35_ShadowedKeywords ==
    category # "none" =>
        LET command_lower == Lower(command)
        IN  /\ Contains(command_lower, "stop") => category = "stop_speech"
            /\ category = "sleep" =>
                  /\ Contains(command_lower, "sleep") \/ Contains(command_lower, "goodbye")
                  /\ \A w \in {"stop", "quiet", "shut up"} : ~Contains(command_lower, w)
            /\ category = "typing" =>
                  /\ \E w \in {"type", "write", "enter"} : Contains(command_lower, w)
                  /\ ~Contains(command_lower, "search")
            /\ Contains(command_lower, "search for") => category # "typing"

\* 'zee stop listening' was heard and took the stop-speech branch: nothing was
\* spoken and speech was cancelled
C35_Witness ==
    /\ command = "stop listening"
    /\ category = "stop_speech"
    /\ spoken = <<>>
    /\ stop_speaking

-----------------------------------------------------------------------------
(* Properties of utterances without a wake phrase: Spec *)

\* no wake phrase is present in the lowered text: every phrase of the list
\* contains 'z' or 'easy'
NoWakePhrase(text_lower) ==
    /\ ~Contains(text_lower, "z")
    /\ ~Contains(text_lower, "easy")

\* C36: when the listen of the IDLE loop returns a text without a wake phrase,
\* process_command is not called, nothing is spoken, the history, the topic, the
\* emotional state, the learning record, the tasks and the notes stay as they
\* were, and the loop is in IDLE again, about to listen.
C36_NoWakePhraseIgnored ==
    [][ \A t \in IdleUtterances :
          (handled' # handled /\ heard' = t /\ Truthy(t) /\ NoWakePhrase(Lower(t))) =>
              /\ wstate' = "IDLE"
              /\ spoken' = <<>>
              /\ calls' = <<>>
              /\ category' = "none"
              /\ command' = ""
              /\ UNCHANGED <<SessionState, smart_calls, tasks, notes, errors,
                             stop_speaking, storage, learned>>
      ]_vars

\* 'hello there' was heard in IDLE after a general query had been answered
C36_Witness ==
    /\ heard = "hello there"
    /\ cause = "speech"
    /\ wstate = "IDLE"
    /\ handled = 2
    /\ spoken = <<>>
    /\ interaction_count = 1
    /\ Len(history) = 3

-----------------------------------------------------------------------------
(* Properties of the turns stored by process_command: SpecFill *)

\* the step is one call of process_command
CommandHandled == wstate = "COMMAND_EXTRACTED" /\ category' # "none"

\* C37: every call of process_command stores the command as a USER turn before
\* anything else it stores, whether a rule-table category handles the command
\* or it falls through to generate_smart_response; a rule-handled command stores
\* that one turn, and a full history drops its oldest turn for it, so the history
\* is always the max_history most recently stored turns.
C37_CommandStoredFirst ==
    [][ CommandHandled =>
          /\ Len(appended') > Len(appended)
          /\ SubSeq(appended', 1, Len(appended)) = appended
          /\ appended'[Len(appended) + 1] = Message("user", command, age)
          /\ category' # "general" =>
                /\ Len(appended') = Len(appended) + 1
                /\ Len(history) = max_history =>
                      history' = Tail(history) \o <<Message("user", command, age)>>
          /\ history' = LastTurns(appended', max_history)
      ]_vars

\* ten stop commands after one general query: the history holds the stop
\* commands only, the two turns of the query are gone
C37_Witness ==
    /\ category = "stop_speech"
    /\ wstate = "IDLE"
    /\ Len(appended) = 12
    /\ appended[1].content = "what is python"
    /\ Len(history) = max_history
    /\ \A i \in 1..Len(history) :
          history[i] = Message("user", "quiet", age)

-----------------------------------------------------------------------------
(* Properties of the interactive mode of AIAssistant: SpecInteractive *)

\* the step is a call of the callback of continuous_listen
ProcessCommandCalled == wstate = "AWAITING_COMMAND" /\ Truthy(command')

\* exit, quit, goodbye or stop is present in the lowered command
HasExitWord(command_lower) ==
    \E w \in {"exit", "quit", "goodbye", "stop"} : Contains(command_lower, w)

\* C38: in the interactive mode process_command returns False exactly for the
\* commands that contain exit, quit, goodbye or stop, whatever else they
\* contain, and True for every other command; after False stop_listening has
\* cleared the flag, continuous_listen listens no more and returns; after True
\* the flag is set and the loop is at its next listen.
C38_ExitEndsLoop ==
    /\ [][ ProcessCommandCalled =>
             /\ returned' \in {"True", "False"}
             /\ \A c \in InteractiveCommands :
                   command' = c => (returned' = "False" <=> HasExitWord(Lower(c)))
             /\ returned' = "False" => ~listening'
             /\ returned' = "True" => listening' /\ wstate' = "IDLE"
         ]_vars
    /\ [][ (~listening /\ returned = "False") =>
             /\ handled' = handled
             /\ heard' = heard
             /\ cause' = cause
             /\ listening' = listening
         ]_vars
    /\ (returned = "False") ~> (wstate = "STOPPED")

====
